---- MODULE Spec2Model ----
(***************************************************************************)
(* spreadsheet-builder: the execution engine (src/engine).                 *)
(*                                                                         *)
(* Text (String values, identifiers, scope names, object keys) is a        *)
(* sequence of one-character strings, so that slicing (`&id[1..]`), the    *)
(* byte scan of PathSplitter and string concatenation are modelled by what *)
(* they do.  An IndexMap (a Scope, an Object) is the sequence of its        *)
(* entries in insertion order.                                             *)
(* A Float is an exact rational num/den (den > 0), or den = 0 for the      *)
(* non-finite values: 1/0 = inf, -1/0 = -inf, 0/0 = NaN.                   *)
(***************************************************************************)
EXTENDS Integers, Sequences, FiniteSets, TLC

\* ------------------------------------------------------------------ text

S_index == <<"i", "n", "d", "e", "x">>

Digits == <<"0", "1", "2", "3", "4", "5", "6", "7", "8", "9">>

DigitValue(c) == CHOOSE d \in 0..9 : Digits[d + 1] = c

IsDigit(c) == \E d \in 0..9 : Digits[d + 1] = c

RECURSIVE NatToString(_)
NatToString(n) ==
  IF n < 10 THEN <<Digits[n + 1]>>
  ELSE NatToString(n \div 10) \o <<Digits[(n % 10) + 1]>>

\* i64::to_string
IntToString(i) == IF i < 0 THEN <<"-">> \o NatToString(-i) ELSE NatToString(i)

RECURSIVE DigitsToNat(_, _)
DigitsToNat(s, acc) ==
  IF s = <<>> THEN acc ELSE DigitsToNat(Tail(s), acc * 10 + DigitValue(Head(s)))

\* ------------------------------------------------------- Option / Result

None == [some |-> FALSE]

Some(v) == [some |-> TRUE, val |-> v]

Ok(v) == [ok |-> TRUE, val |-> v]

\* SpreadSheetError::new(message): the message is kept as its parts
Err(msg) == [ok |-> FALSE, err |-> msg]

\* str::parse::<usize>(): an optional leading '+', then one or more digits
ParseDigits(body) ==
  IF body # <<>> /\ \A k \in 1..Len(body) : IsDigit(body[k])
  THEN Ok(DigitsToNat(body, 0))
  ELSE Err(<<"invalid digit found in string">>)

ParseUsize(s) == ParseDigits(IF s # <<>> /\ Head(s) = "+" THEN Tail(s) ELSE s)

\* ----------------------------------------------------------------- Value

String(s) == [kind |-> "String", s |-> s]

Integer(i) == [kind |-> "Integer", i |-> i]

Float(n, d) == [kind |-> "Float", num |-> n, den |-> d]

Boolean(b) == [kind |-> "Boolean", b |-> b]

Array(a) == [kind |-> "Array", arr |-> a]

Object(m) == [kind |-> "Object", map |-> m]

\* IndexMap<K, V>: the entries in insertion order, keys unique
RECURSIVE IndexMap_get(_, _)
IndexMap_get(m, key) ==
  IF m = << >> THEN None
  ELSE IF Head(m).key = key THEN Some(Head(m).value)
       ELSE IndexMap_get(Tail(m), key)

\* IndexMap::insert: overwrite in place, or append a new entry
IndexMap_insert(m, key, value) ==
  IF \E k \in 1..Len(m) : m[k].key = key
  THEN [k \in 1..Len(m) |->
          IF m[k].key = key THEN [key |-> key, value |-> value] ELSE m[k]]
  ELSE Append(m, [key |-> key, value |-> value])

\* ------------------------------------------------------- f64 arithmetic

Sign(n) == IF n > 0 THEN 1 ELSE IF n < 0 THEN -1 ELSE 0

Abs(n) == IF n < 0 THEN -n ELSE n

RECURSIVE GCD(_, _)
GCD(a, b) == IF b = 0 THEN a ELSE GCD(b, a % b)

Reduce(n, d, g) == [num |-> n \div g, den |-> d \div g]

\* the f64 with value n/d
FNorm(n, d) ==
  IF d = 0 THEN [num |-> Sign(n), den |-> 0]
  ELSE IF d < 0 THEN Reduce(-n, -d, GCD(Abs(n), Abs(d)))
  ELSE Reduce(n, d, GCD(Abs(n), Abs(d)))

\* `i as f64`
IntToF(i) == [num |-> i, den |-> 1]

FIsInf(a) == a.den = 0 /\ a.num # 0

FIsNaN(a) == a.den = 0 /\ a.num = 0

NaN == [num |-> 0, den |-> 0]

\* the difference in place of the sum
FAdd_minus(a, b) ==
  IF a.den = 0 \/ b.den = 0 THEN [num |-> 0, den |-> 0]
  ELSE FNorm(a.num * b.den - b.num * a.den, a.den * b.den)

FAdd(a, b) ==
  IF FIsNaN(a) \/ FIsNaN(b) THEN NaN
  ELSE IF FIsInf(a) /\ FIsInf(b) THEN (IF a.num = b.num THEN a ELSE NaN)
  ELSE IF FIsInf(a) THEN a
  ELSE IF FIsInf(b) THEN b
  ELSE FNorm(a.num * b.den + b.num * a.den, a.den * b.den)

FNeg(a) == [num |-> -a.num, den |-> a.den]

FSub(a, b) == FAdd(a, FNeg(b))

FMul(a, b) == FNorm(a.num * b.num, a.den * b.den)

FDiv(a, b) ==
  LET s == IF b.num < 0 THEN -1 ELSE 1
  IN  FNorm(s * a.num * b.den, a.den * s * b.num)

FloatOf(f) == [kind |-> "Float", num |-> f.num, den |-> f.den]

FOf(v) == [num |-> v.num, den |-> v.den]

\* the digits of n / d after the decimal point, n < d, at most `left` of them
RECURSIVE FracDigits(_, _, _)
FracDigits(n, d, left) ==
  IF n = 0 \/ left = 0 THEN << >>
  ELSE <<Digits[((n * 10) \div d) + 1]>> \o FracDigits((n * 10) % d, d, left - 1)

\* f64's Display (to_string): no trailing ".0"; exact for the values whose
\* decimal expansion ends within FloatDigits digits
FloatDigits == 16

Fraction(frac) == IF frac = << >> THEN << >> ELSE <<".">> \o frac

FloatToString(f) ==
  IF f.den = 0
  THEN (IF f.num = 0 THEN <<"N", "a", "N">>
        ELSE IF f.num > 0 THEN <<"i", "n", "f">> ELSE <<"-", "i", "n", "f">>)
  ELSE (IF f.num < 0 THEN <<"-">> ELSE << >>)
         \o NatToString(Abs(f.num) \div f.den)
         \o Fraction(FracDigits(Abs(f.num) % f.den, f.den, FloatDigits))

\* ------------------------------------------------------ Value arithmetic

InvalidOp(lhs, op, rhs) == Err(<<"invalid operation: ", lhs, " ", op, " ", rhs>>)

InvalidNeg(operand) == Err(<<"invalid operation: ", "-", operand>>)

\* a chain that yields the right operand's elements first
Chain_right_first(lhs, rhs) == rhs \o lhs

\* lhs.iter().chain(rhs.iter()).cloned().collect()
Chain(lhs, rhs) == lhs \o rhs

\* an add that takes an Object, like an Array, for its number of entries
add_object_as_length(self, rhs) ==
  CASE self.kind = "Integer" /\ rhs.kind = "Integer" -> Ok(Integer(self.i + rhs.i))
    [] self.kind = "Integer" /\ rhs.kind = "Object" -> Ok(Integer(self.i + Len(rhs.map)))
    [] self.kind = "Object" /\ rhs.kind = "Integer" -> Ok(Integer(Len(self.map) + rhs.i))
    [] self.kind = "Array" /\ rhs.kind = "Array" -> Ok(Array(Chain(self.arr, rhs.arr)))
    [] self.kind = "String" /\ rhs.kind = "String" -> Ok(String(self.s \o rhs.s))
    [] OTHER -> InvalidOp(self.kind, "+", rhs.kind)

\* Value::add
add(self, rhs) ==
  CASE self.kind = "Integer" ->
         (CASE rhs.kind = "Integer" -> Ok(Integer(self.i + rhs.i))
            [] rhs.kind = "Float" -> Ok(FloatOf(FAdd(IntToF(self.i), FOf(rhs))))
            [] rhs.kind = "String" -> Ok(String(IntToString(self.i) \o rhs.s))
            [] rhs.kind = "Array" -> Ok(Integer(self.i + Len(rhs.arr)))
            [] rhs.kind = "Object" -> InvalidOp("integer", "+", "object")
            [] rhs.kind = "Boolean" -> InvalidOp("integer", "+", "boolean"))
    [] self.kind = "Float" ->
         (CASE rhs.kind = "Integer" -> Ok(FloatOf(FAdd(FOf(self), IntToF(rhs.i))))
            [] rhs.kind = "Float" -> Ok(FloatOf(FAdd(FOf(self), FOf(rhs))))
            [] rhs.kind = "String" -> Ok(String(FloatToString(FOf(self)) \o rhs.s))
            [] rhs.kind = "Array" -> Ok(FloatOf(FAdd(FOf(self), IntToF(Len(rhs.arr)))))
            [] rhs.kind = "Object" -> InvalidOp("float", "+", "object")
            [] rhs.kind = "Boolean" -> InvalidOp("float", "+", "boolean"))
    [] self.kind = "String" ->
         (CASE rhs.kind = "Integer" -> Ok(String(self.s \o IntToString(rhs.i)))
            [] rhs.kind = "Float" -> Ok(String(self.s \o FloatToString(FOf(rhs))))
            [] rhs.kind = "String" -> Ok(String(self.s \o rhs.s))
            [] rhs.kind = "Array" -> InvalidOp("string", "+", "array")
            [] rhs.kind = "Object" -> InvalidOp("string", "+", "object")
            [] rhs.kind = "Boolean" -> InvalidOp("string", "+", "boolean"))
    [] self.kind = "Array" ->
         (CASE rhs.kind = "Integer" -> Ok(Integer(Len(self.arr) + rhs.i))
            [] rhs.kind = "Float" -> Ok(FloatOf(FAdd(IntToF(Len(self.arr)), FOf(rhs))))
            [] rhs.kind = "Array" -> Ok(Array(Chain(self.arr, rhs.arr)))
            [] rhs.kind = "Object" -> InvalidOp("array", "+", "object")
            [] rhs.kind = "Boolean" -> InvalidOp("array", "+", "boolean")
            [] rhs.kind = "String" -> InvalidOp("array", "+", "string"))
    [] self.kind = "Boolean" -> InvalidOp("boolean", "+", "_")
    [] self.kind = "Object" -> InvalidOp("object", "+", "_")

\* the name of a Value's kind in the error messages
KindName(v) ==
  CASE v.kind = "Integer" -> "integer"
    [] v.kind = "Float" -> "float"
    [] v.kind = "String" -> "string"
    [] v.kind = "Boolean" -> "boolean"
    [] v.kind = "Array" -> "array"
    [] v.kind = "Object" -> "object"

\* a sub without the branches that take an Array for its length
sub_numbers_only(self, rhs) ==
  CASE self.kind = "Integer" /\ rhs.kind = "Integer" -> Ok(Integer(self.i - rhs.i))
    [] self.kind = "Integer" /\ rhs.kind = "Float" ->
         Ok(FloatOf(FSub(IntToF(self.i), FOf(rhs))))
    [] self.kind = "Float" /\ rhs.kind = "Integer" ->
         Ok(FloatOf(FSub(FOf(self), IntToF(rhs.i))))
    [] self.kind = "Float" /\ rhs.kind = "Float" -> Ok(FloatOf(FSub(FOf(self), FOf(rhs))))
    [] self.kind \in {"Integer", "Float"} -> InvalidOp(KindName(self), "-", KindName(rhs))
    [] OTHER -> InvalidOp(KindName(self), "-", "_")

\* Value::sub
sub(self, rhs) ==
  CASE self.kind = "Integer" ->
         (CASE rhs.kind = "Integer" -> Ok(Integer(self.i - rhs.i))
            [] rhs.kind = "Float" -> Ok(FloatOf(FSub(IntToF(self.i), FOf(rhs))))
            [] rhs.kind = "String" -> InvalidOp("integer", "-", "string")
            [] rhs.kind = "Array" -> Ok(Integer(self.i - Len(rhs.arr)))
            [] rhs.kind = "Object" -> InvalidOp("integer", "-", "object")
            [] rhs.kind = "Boolean" -> InvalidOp("integer", "-", "boolean"))
    [] self.kind = "Float" ->
         (CASE rhs.kind = "Integer" -> Ok(FloatOf(FSub(FOf(self), IntToF(rhs.i))))
            [] rhs.kind = "Float" -> Ok(FloatOf(FSub(FOf(self), FOf(rhs))))
            [] rhs.kind = "String" -> InvalidOp("float", "-", "string")
            [] rhs.kind = "Array" -> Ok(FloatOf(FSub(FOf(self), IntToF(Len(rhs.arr)))))
            [] rhs.kind = "Object" -> InvalidOp("float", "-", "object")
            [] rhs.kind = "Boolean" -> InvalidOp("float", "-", "boolean"))
    [] self.kind = "String" -> InvalidOp("string", "-", "_")
    [] self.kind = "Boolean" -> InvalidOp("boolean", "-", "_")
    [] self.kind = "Object" -> InvalidOp("object", "-", "_")
    [] self.kind = "Array" -> InvalidOp("array", "-", "_")

\* i64::MIN and i64::MAX; the model's integers are 32 bits wide for i64's 64
MinI64 == -2147483647 - 1

MaxI64 == 2147483647

\* an i64 operation that overflowed: a panic in a build with overflow checks,
\* the wrapped value in a build without
Overflow(what, wrapped) == [ok |-> FALSE, err |-> <<what>>, wrapped |-> Integer(wrapped)]

IsOverflow(r) == ~r.ok /\ "wrapped" \in DOMAIN r

\* `-i` on an i64: only i64::MIN has no negation, and wraps to itself
I64Neg(i) ==
  IF i = MinI64 THEN Overflow("attempt to negate with overflow", MinI64)
  ELSE Ok(Integer(-i))

\* Value::neg
neg(self) ==
  CASE self.kind = "Integer" -> I64Neg(self.i)
    [] self.kind = "Float" -> Ok(FloatOf(FNeg(FOf(self))))
    [] self.kind = "Boolean" -> Ok(Boolean(~self.b))
    [] self.kind = "String" -> InvalidNeg("string")
    [] self.kind = "Array" -> InvalidNeg("array")
    [] self.kind = "Object" -> InvalidNeg("object")

\* a division that keeps an exact Integer quotient an Integer
div_exact_integer(self, rhs) ==
  IF self.kind \in {"Integer", "Float"} /\ rhs.kind \in {"Integer", "Float"}
  THEN IF self.kind = "Integer" /\ rhs.kind = "Integer" /\ rhs.i # 0 /\ self.i % Abs(rhs.i) = 0
       THEN Ok(Integer(Sign(rhs.i) * (self.i \div Abs(rhs.i))))
       ELSE Ok(FloatOf(FDiv(IF self.kind = "Integer" THEN IntToF(self.i) ELSE FOf(self),
                            IF rhs.kind = "Integer" THEN IntToF(rhs.i) ELSE FOf(rhs))))
  ELSE InvalidOp(KindName(self), "/", KindName(rhs))

\* Value::div
div(self, rhs) ==
  CASE self.kind = "Integer" ->
         (CASE rhs.kind = "Integer" -> Ok(FloatOf(FDiv(IntToF(self.i), IntToF(rhs.i))))
            [] rhs.kind = "Float" -> Ok(FloatOf(FDiv(IntToF(self.i), FOf(rhs))))
            [] rhs.kind = "String" -> InvalidOp("integer", "/", "string")
            [] rhs.kind = "Boolean" -> InvalidOp("integer", "/", "boolean")
            [] rhs.kind = "Array" -> InvalidOp("integer", "/", "array")
            [] rhs.kind = "Object" -> InvalidOp("integer", "/", "object"))
    [] self.kind = "Float" ->
         (CASE rhs.kind = "Integer" -> Ok(FloatOf(FDiv(FOf(self), IntToF(rhs.i))))
            [] rhs.kind = "Float" -> Ok(FloatOf(FDiv(FOf(self), FOf(rhs))))
            [] rhs.kind = "String" -> InvalidOp("float", "/", "string")
            [] rhs.kind = "Boolean" -> InvalidOp("float", "/", "boolean")
            [] rhs.kind = "Array" -> InvalidOp("float", "/", "array")
            [] rhs.kind = "Object" -> InvalidOp("float", "/", "object"))
    [] self.kind = "String" -> InvalidOp("string", "/", "_")
    [] self.kind = "Boolean" -> InvalidOp("boolean", "/", "_")
    [] self.kind = "Array" -> InvalidOp("array", "/", "_")
    [] self.kind = "Object" -> InvalidOp("object", "/", "_")

\* Value::mul
mul(self, rhs) ==
  CASE self.kind = "Integer" ->
         (CASE rhs.kind = "Integer" -> Ok(Integer(self.i * rhs.i))
            [] rhs.kind = "Float" -> Ok(FloatOf(FMul(IntToF(self.i), FOf(rhs))))
            [] rhs.kind = "String" -> InvalidOp("integer", "*", "string")
            [] rhs.kind = "Boolean" -> InvalidOp("integer", "*", "boolean")
            [] rhs.kind = "Array" -> InvalidOp("integer", "*", "array")
            [] rhs.kind = "Object" -> InvalidOp("integer", "*", "object"))
    [] self.kind = "Float" ->
         (CASE rhs.kind = "Integer" -> Ok(FloatOf(FMul(FOf(self), IntToF(rhs.i))))
            [] rhs.kind = "Float" -> Ok(FloatOf(FMul(FOf(self), FOf(rhs))))
            [] rhs.kind = "String" -> InvalidOp("float", "*", "string")
            [] rhs.kind = "Boolean" -> InvalidOp("float", "*", "boolean")
            [] rhs.kind = "Array" -> InvalidOp("float", "*", "array")
            [] rhs.kind = "Object" -> InvalidOp("float", "*", "object"))
    [] self.kind = "String" -> InvalidOp("string", "/", "_")
    [] self.kind = "Boolean" -> InvalidOp("boolean", "/", "_")
    [] self.kind = "Array" -> InvalidOp("array", "/", "_")
    [] self.kind = "Object" -> InvalidOp("object", "/", "_")

\* ---------------------------------------------------------- PathSplitter

PathSplitter_new(path) == [path |-> path, pos |-> 0]

\* the while loop of PathSplitter::next: advance `end` to the next '.' or
\* to the end of the path
RECURSIVE PathScan(_, _)
PathScan(path, end) ==
  IF end < Len(path) /\ path[end + 1] # "." THEN PathScan(path, end + 1) ELSE end

\* a next that yields the empty segment between two dots, as str::split does
PathYield_empty_segments(path, start, end) ==
  IF start = end /\ end >= Len(path)
  THEN [item |-> None, ps |-> [path |-> path, pos |-> end]]
  ELSE [item |-> Some(SubSeq(path, start + 1, end)),
        ps   |-> [path |-> path, pos |-> IF end < Len(path) THEN end + 1 ELSE end]]

\* PathSplitter::next after its while loop: the item yielded and the
\* splitter after the call
PathYield(path, start, end) ==
  IF start = end
  THEN [item |-> None, ps |-> [path |-> path, pos |-> end]]
  ELSE [item |-> Some(SubSeq(path, start + 1, end)),
        ps   |-> [path |-> path, pos |-> IF end < Len(path) THEN end + 1 ELSE end]]

\* PathSplitter::next
PathSplitter_next(ps) == PathYield(ps.path, ps.pos, PathScan(ps.path, ps.pos))

RECURSIVE Yielded(_)

YieldedFrom(n) == IF n.item.some THEN <<n.item.val>> \o Yielded(n.ps) ELSE << >>

\* the items the iterator yields until its first None
Yielded(ps) == YieldedFrom(PathSplitter_next(ps))

RECURSIVE Value_resolve(_, _)

\* Option::and_then(|v| v.resolve(path))
AndThenResolve(v, path) == IF v.some THEN Value_resolve(v.val, path) ELSE None

\* a get that counts the elements from 1
ArrayGet_one_based(arr, index) ==
  IF index.ok /\ 1 <= index.val /\ index.val <= Len(arr)
  THEN Some(arr[index.val]) ELSE None

\* Vec::get(index) for a parsed index
ArrayGet(arr, index) ==
  IF index.ok /\ index.val < Len(arr) THEN Some(arr[index.val + 1]) ELSE None

\* Value::resolve with the segment `n` that path.next() yielded
ResolveSegment(self, n) ==
  IF n.item.some
  THEN CASE self.kind = "Object" ->
              AndThenResolve(IndexMap_get(self.map, n.item.val), n.ps)
         [] self.kind = "Array" ->
              AndThenResolve(ArrayGet(self.arr, ParseUsize(n.item.val)), n.ps)
         [] OTHER -> None
  ELSE Some(self)

\* Value::resolve: descend along the remaining segments of the path
Value_resolve(self, path) == ResolveSegment(self, PathSplitter_next(path))

\* ---------------------------------------------------------------- Scopes

\* Scope::new
Scope_new == << >>

\* a define that replaces the whole map by the new binding
Scope_define_only(scope, name, value) == <<[key |-> name, value |-> value]>>

\* Scope::define
Scope_define(scope, name, value) == IndexMap_insert(scope, name, value)

\* Scope::get
Scope_get(scope, var) == IndexMap_get(scope, var)

\* Scopes::new
Scopes_new == [top |-> Scope_new, scopes |-> << >>]

\* an enter that saves the top in place of the scopes saved before
Scopes_enter_forgetful(s) == [top |-> Scope_new, scopes |-> <<s.top>>]

\* Scopes::enter: push the taken top, leaving a default (empty) top
Scopes_enter(s) == [top |-> Scope_new, scopes |-> Append(s.scopes, s.top)]

\* exit that pops the saved scope and drops it, keeping the loop's top
Scopes_exit_keep(s) ==
  [top |-> s.top, scopes |-> SubSeq(s.scopes, 1, Len(s.scopes) - 1)]

\* exit that takes the oldest saved scope (remove(0) for pop())
Scopes_exit_oldest(s) == [top |-> s.scopes[1], scopes |-> Tail(s.scopes)]

\* Scopes::exit where a scope was pushed (the caller decides the panic)
Scopes_exit(s) ==
  [top |-> s.scopes[Len(s.scopes)], scopes |-> SubSeq(s.scopes, 1, Len(s.scopes) - 1)]

unknown_variable(var) == Err(<<"unknown variable: ">> \o var)

\* the chain without rev(): the oldest saved scope searched first
ScopeChain_oldest_first(s) == <<s.top>> \o s.scopes

\* the iterator once(&top).chain(scopes.iter().rev())
ScopeChain(s) ==
  <<s.top>> \o [k \in 1..Len(s.scopes) |-> s.scopes[Len(s.scopes) + 1 - k]]

\* Iterator::find_map(|scope| scope.get(var))
RECURSIVE FindMap(_, _)
FindMap(chain, var) ==
  IF chain = << >> THEN None
  ELSE IF Scope_get(Head(chain), var).some THEN Scope_get(Head(chain), var)
       ELSE FindMap(Tail(chain), var)

\* Option::ok_or_else(|| unknown_variable(var))
OkOrUnknown(found, var) ==
  IF found.some THEN Ok(found.val) ELSE unknown_variable(var)

\* Scopes::get
Scopes_get(s, var) == OkOrUnknown(FindMap(ScopeChain(s), var), var)

\* Option::map(Slot::write): the slot's value, always Ok
MapWrite(slot) == IF slot.some THEN Some(Ok(slot.val)) ELSE None

\* Scope::get_mut
Scope_get_mut(scope, var) == MapWrite(IndexMap_get(scope, var))

\* Iterator::find_map(|scope| scope.get_mut(var)) over
\* once(&mut top).chain(scopes.iter_mut().rev())
RECURSIVE FindMapMut(_, _)
FindMapMut(chain, var) ==
  IF chain = << >> THEN None
  ELSE IF Scope_get_mut(Head(chain), var).some THEN Scope_get_mut(Head(chain), var)
       ELSE FindMapMut(Tail(chain), var)

\* ok_or_else(|| unknown_variable(var))? unwraps the outer Result
Flatten(found, var) == IF found.some THEN found.val ELSE unknown_variable(var)

\* Scopes::get_mut
Scopes_get_mut(s, var) == Flatten(FindMapMut(ScopeChain(s), var), var)

\* `if let Ok(value) = self.get(name) { value.resolve(&mut path) }`
ResolveFrom(value, path) ==
  IF value.ok THEN Value_resolve(value.val, path) ELSE None

\* Scopes::resolve_identifier with the first segment `n` of the path
ResolveRoot(s, n) ==
  IF n.item.some THEN ResolveFrom(Scopes_get(s, n.item.val), n.ps) ELSE None

\* Scopes::resolve_identifier
resolve_identifier(s, id) ==
  ResolveRoot(s, PathSplitter_next(PathSplitter_new(Tail(id))))

\* Scopes::resolve
Scopes_resolve(s, expression) ==
  IF expression.kind = "Value" THEN Some(expression.value)
  ELSE resolve_identifier(s, expression.id)

\* ------------------------------------------------------------------- AST

\* Expression::Value, Expression::Identifier
ExprValue(v) == [kind |-> "Value", value |-> v]

Identifier(id) == [kind |-> "Identifier", id |-> id]

\* Expr::Primary, Expr::Infix, Expr::Prefix
Primary(e) == [kind |-> "Primary", expression |-> e]

Infix(op, lhs, rhs) == [kind |-> "Infix", op |-> op, lhs |-> lhs, rhs |-> rhs]

Prefix(op, e) == [kind |-> "Prefix", op |-> op, expr |-> e]

Cell(cell_type, value, format, colspan, rowspan, image_mode) ==
  [cell_type |-> cell_type, value |-> value, format |-> format,
   colspan |-> colspan, rowspan |-> rowspan, image_mode |-> image_mode]

Modifier(statement, expression) ==
  [statement |-> statement, expression |-> expression]

\* the Element variants
Format(identifier, modifiers) ==
  [kind |-> "Format", identifier |-> identifier, modifiers |-> modifiers]

Sheet(name) == [kind |-> "Sheet", name |-> name]

Anchor(identifier) == [kind |-> "Anchor", identifier |-> identifier]

Row(cells) == [kind |-> "Row", cells |-> cells]

Mover(anchor, row, col) == [kind |-> "Mover", anchor |-> anchor, row |-> row, col |-> col]

ForLoop(variable, expression, elements) ==
  [kind |-> "ForLoop", variable |-> variable, expression |-> expression,
   elements |-> elements]

Cr == [kind |-> "Cr"]

Autofit == [kind |-> "Autofit"]

Column(start, end, unit, width) ==
  [kind |-> "Column", start |-> start, end |-> end, unit |-> unit, width |-> width]

RowSpec(start, unit, height) ==
  [kind |-> "RowSpec", start |-> start, unit |-> unit, height |-> height]

\* -------------------------------------------------- VM: expressions

\* an identifier that did not resolve taken for an empty String
OrUnresolved_default(v, id) == IF v.some THEN Ok(v.val) ELSE Ok(String(<< >>))

\* Some(v), or the error of an identifier that did not resolve
OrUnresolved(v, id) ==
  IF v.some THEN Ok(v.val) ELSE Err(<<"Unresolved identifier: ">> \o id)

\* VM::resolve_expression
resolve_expression(s, expression) ==
  IF expression.kind = "Value" THEN Ok(expression.value)
  ELSE OrUnresolved(Scopes_resolve(s, Identifier(expression.id)), expression.id)

\* VM::handle
handle(op, lhs, rhs) ==
  CASE op = "Add" -> add(lhs, rhs)
    [] op = "Sub" -> sub(lhs, rhs)
    [] op = "Mul" -> mul(lhs, rhs)
    [] op = "Div" -> div(lhs, rhs)
    [] OTHER -> Err(<<"Invalid infix operator">>)

\* `if let Expr::Primary(Expression::Identifier(id)) = e` and
\* `if let Some(v) = self.scopes.resolve_identifier(id)`
BareIdentifier(s, e) ==
  IF e.kind = "Primary" /\ e.expression.kind = "Identifier"
  THEN resolve_identifier(s, e.expression.id)
  ELSE None

\* `handle(op, lhs, &self.resolve_expr(rhs)?)`
HandleResolved(op, lhs, rhs) == IF rhs.ok THEN handle(op, lhs, rhs.val) ELSE rhs

RECURSIVE resolve_expr(_, _)

\* the shortcut with its operands swapped: handle(op, rhs_v, lhs_v)
InfixOfIdentifier_swapped(s, expr, lhs_v, rhs_v) ==
  IF rhs_v.some THEN handle(expr.op, rhs_v.val, lhs_v)
  ELSE HandleResolved(expr.op, lhs_v, resolve_expr(s, expr.rhs))

\* VM::resolve_expr, Infix, the left operand a resolved bare identifier
\* (lines 101-107): rhs_v is the right operand as a bare identifier
InfixOfIdentifier(s, expr, lhs_v, rhs_v) ==
  IF rhs_v.some THEN handle(expr.op, lhs_v, rhs_v.val)
  ELSE HandleResolved(expr.op, lhs_v, resolve_expr(s, expr.rhs))

\* VM::resolve_expr, Infix, the left operand evaluated (lines 111-119)
InfixOfResolved(s, expr, lhs, rhs_v) ==
  IF ~lhs.ok THEN lhs
  ELSE IF rhs_v.some THEN handle(expr.op, lhs.val, rhs_v.val)
  ELSE HandleResolved(expr.op, lhs.val, resolve_expr(s, expr.rhs))

\* VM::resolve_expr, Infix: lhs_v is the left operand as a bare identifier
InfixExpr(s, expr, lhs_v) ==
  IF lhs_v.some
  THEN InfixOfIdentifier(s, expr, lhs_v.val, BareIdentifier(s, expr.rhs))
  ELSE InfixOfResolved(s, expr, resolve_expr(s, expr.lhs), BareIdentifier(s, expr.rhs))

\* VM::resolve_expr, Prefix, the operand evaluated
PrefixExpr(op, e) ==
  IF ~e.ok THEN e
  ELSE IF op = "Neg" THEN neg(e.val)
  ELSE Err(<<"Invalid prefix operator">>)

\* VM::resolve_expr
resolve_expr(s, expr) ==
  CASE expr.kind = "Infix" -> InfixExpr(s, expr, BareIdentifier(s, expr.lhs))
    [] expr.kind = "Prefix" -> PrefixExpr(expr.op, resolve_expr(s, expr.expr))
    [] expr.kind = "Primary" -> resolve_expression(s, expr.expression)

RECURSIVE ResolveCells(_, _, _)

\* the body of the loop of VM::resolve for `cell`, its value resolved to v
\* a resolve that pushes the cell as it was (cell.clone())
PushCell_unresolved(s, cells, acc, cell, v) ==
  IF ~v.ok THEN v
  ELSE ResolveCells(s, Tail(cells), Append(acc, cell))

\* a resolve that builds the cell with default spans (colspan 1, rowspan 1)
PushCell_default_spans(s, cells, acc, cell, v) ==
  IF ~v.ok THEN v
  ELSE ResolveCells(s, Tail(cells),
         Append(acc, Cell(cell.cell_type, Primary(ExprValue(v.val)), cell.format,
                          1, 1, cell.image_mode)))

PushCell(s, cells, acc, cell, v) ==
  IF ~v.ok THEN v
  ELSE ResolveCells(s, Tail(cells),
         Append(acc, Cell(cell.cell_type, Primary(ExprValue(v.val)), cell.format,
                          cell.colspan, cell.rowspan, cell.image_mode)))

\* the loop of VM::resolve: the cells resolved, or the first error
ResolveCells(s, cells, acc) ==
  IF cells = << >> THEN Ok(acc)
  ELSE PushCell(s, cells, acc, Head(cells), resolve_expr(s, Head(cells).value))

OkRow(cells) == IF cells.ok THEN Ok(Row(cells.val)) ELSE cells

\* VM::resolve
VM_resolve(s, row) == OkRow(ResolveCells(s, row.cells, << >>))

RECURSIVE ResolveModifiers(_, _, _)

\* the body of the loop of VM::resolve_format
PushModifier(s, modifiers, acc, modifier, v) ==
  IF ~v.ok THEN v
  ELSE ResolveModifiers(s, Tail(modifiers),
         Append(acc, Modifier(modifier.statement, Primary(ExprValue(v.val)))))

\* the loop of VM::resolve_format: the modifiers resolved, or the first error
ResolveModifiers(s, modifiers, acc) ==
  IF modifiers = << >> THEN Ok(acc)
  ELSE PushModifier(s, modifiers, acc, Head(modifiers),
                    resolve_expr(s, Head(modifiers).expression))

OkFormat(identifier, modifiers) ==
  IF modifiers.ok THEN Ok(Format(identifier, modifiers.val)) ELSE modifiers

\* VM::resolve_format
resolve_format(s, format) ==
  OkFormat(format.identifier, ResolveModifiers(s, format.modifiers, << >>))

\* ---------------------------------------------------------------- inputs

\* length of the arrays bound in the initial environment
MaxArr == 2

\* length of the element lists drawn for flat programs and loop bodies
MaxItems == 2

\* saved scopes the scope-stack operations are driven to
MaxScopes == 2

\* an identifier token: the sigil, then the dotted path
Id(name) == <<"$">> \o name

Var(name) == Primary(Identifier(Id(name)))

Lit(v) == Primary(ExprValue(v))

EnvArr == [k \in 1..MaxArr |-> String(<<"s">> \o NatToString(k))]

\* rows of length 0, 1, ...
EnvMatrix == [k \in 1..MaxArr |-> Array([j \in 1..(k - 1) |-> Integer(10 * k + j)])]

\* Integers, the last element a String
EnvMixed ==
  [k \in 1..MaxArr |-> IF k = MaxArr THEN String(<<"w">>) ELSE Integer(k)]

EnvDict ==
  Object(<<[key |-> <<"i", "n", "n", "e", "r">>, value |-> Integer(1234)],
           [key |-> <<"l">>, value |-> Array(<<Integer(5), Integer(6)>>)]>>)

\* the bindings the embedding caller installs before run (src/main.rs)
Env ==
  <<[key |-> <<"a">>, value |-> Array(EnvArr)],
    [key |-> <<"e">>, value |-> Array(<< >>)],
    [key |-> <<"m">>, value |-> Array(EnvMatrix)],
    [key |-> <<"w">>, value |-> Array(EnvMixed)],
    [key |-> <<"n">>, value |-> Integer(4765)],
    [key |-> <<"f">>, value |-> Float(1, 2)],
    [key |-> <<"s">>, value |-> String(<<"r", "e", "d">>)],
    [key |-> <<"b">>, value |-> Boolean(TRUE)],
    [key |-> <<"d">>, value |-> EnvDict]>>

\* scope stacks run starts from: the caller's bindings in the top scope, or
\* under scopes that shadow some of them and bind `index` and `x` beforehand
InitialScopes ==
  { [top |-> Env, scopes |-> << >>],
    [top    |-> <<[key |-> <<"n">>, value |-> Integer(8)],
                  [key |-> S_index, value |-> String(<<"p">>)]>>,
     scopes |-> <<Env>>],
    [top    |-> <<[key |-> <<"x">>, value |-> Boolean(FALSE)]>>,
     scopes |-> <<<<[key |-> <<"a">>, value |-> Integer(0)],
                    [key |-> <<"x">>, value |-> Integer(1)]>>,
                  Env>>] }

TextCell(e) == Cell("Str", e, None, 1, 1, None)

\* elements without loops
TopLeaves ==
  { Sheet(<<"S">>),
    Anchor(<<"A">>),
    Mover(Some(<<"A">>), 1, -1),
    Cr,
    Autofit,
    Column(0, 1, <<"p", "x">>, [num |-> 21, den |-> 2]),
    RowSpec(3, <<"p", "t">>, [num |-> 15, den |-> 1]),
    Format(<<"h">>,
           <<Modifier(<<"c", "o", "l", "o", "r">>, Var(<<"s">>)),
             Modifier(<<"s", "i", "z", "e">>,
                      Infix("Mul", Lit(Integer(2)), Prefix("Neg", Var(<<"n">>))))>>),
    Row(<<Cell("Num", Infix("Add", Var(<<"d", ".", "i", "n", "n", "e", "r">>), Var(<<"a">>)),
               Some(<<"h">>), 2, 1, None),
          Cell("Image", Lit(String(<<"i">>)), None, 1, 3, Some(<<"f", "i", "t">>))>>),
    Row(<<TextCell(Var(<<"n", "o", "p", "e">>))>>) }

\* loop variable tokens
LoopVars == {Id(<<"x">>), Id(S_index), Id(<<"a">>)}

\* a row of the loop variable and the position
BodyRow(v) ==
  Row(<<TextCell(Primary(Identifier(v))),
        Cell("Num", Infix("Add", Var(S_index), Lit(Integer(1))), Some(<<"h">>), 1, 1, None)>>)

\* fails on a String element
MulRow(v) == Row(<<TextCell(Infix("Mul", Primary(Identifier(v)), Lit(Integer(2))))>>)

BodyLeaves(v) == {BodyRow(v), MulRow(v), Cr}

\* the sequences over S of length 0..n
RECURSIVE SeqsUpTo(_, _)
SeqsUpTo(S, n) ==
  IF n = 0 THEN {<< >>}
  ELSE LET shorter == SeqsUpTo(S, n - 1)
       IN  shorter \cup {Append(q, x) : q \in shorter, x \in S}

ArraySources ==
  { Identifier(Id(<<"a">>)), Identifier(Id(<<"e">>)), Identifier(Id(<<"m">>)),
    Identifier(Id(<<"w">>)), Identifier(Id(<<"d", ".", "l">>)),
    ExprValue(Array(<<Boolean(FALSE)>>)) }

OtherSources ==
  { Identifier(Id(<<"n">>)), Identifier(Id(<<"f">>)), Identifier(Id(<<"s">>)),
    Identifier(Id(<<"b">>)), Identifier(Id(<<"d">>)),
    Identifier(Id(<<"a", ".", "0">>)),
    ExprValue(Integer(0)), ExprValue(String(<<"t">>)),
    Identifier(Id(<<"n", "o", "p", "e">>)),
    Identifier(Id(<<"d", ".", "m", "i", "s", "s", "i", "n", "g">>)) }

LoopsOver(v) ==
  { ForLoop(v, src, body) :
      src \in ArraySources, body \in SeqsUpTo(BodyLeaves(v), MaxItems) }
  \cup
  { ForLoop(v, src, <<BodyRow(v)>>) : src \in OtherSources }

Loops == UNION {LoopsOver(v) : v \in LoopVars}

Around == {<< >>, <<Sheet(<<"S">>)>>}

InnerLoopsOver(outer, v) ==
  { ForLoop(v, src, body) :
      src \in { Identifier(outer), Identifier(Id(<<"a">>)), Identifier(Id(<<"e">>)),
                Identifier(Id(<<"w">>)), Identifier(Id(<<"n">>)),
                Identifier(Id(<<"n", "o", "p", "e">>)) },
      body \in {<<BodyRow(v)>>, <<MulRow(v), Cr>>} }

InnerLoops(outer) == UNION {InnerLoopsOver(outer, v) : v \in LoopVars}

NestedLoopsOver(v) ==
  { ForLoop(v, src, pre \o <<inner>> \o post) :
      src \in {Identifier(Id(<<"a">>)), Identifier(Id(<<"m">>))},
      inner \in InnerLoops(v),
      pre \in {<< >>, <<BodyRow(v)>>},
      post \in {<< >>, <<BodyRow(v)>>} }

NestedLoops == UNION {NestedLoopsOver(v) : v \in LoopVars}

DeepLoops ==
  { ForLoop(Id(<<"x">>), Identifier(Id(<<"m">>)),
      <<ForLoop(Id(<<"y">>), Identifier(Id(<<"x">>)),
          <<ForLoop(v, Identifier(Id(<<"a">>)),
              <<Row(<<TextCell(Infix("Add", Var(<<"y">>), Primary(Identifier(v))))>>)>>),
            BodyRow(Id(<<"y">>))>>)>>) : v \in LoopVars }

Operators == {"Add", "Sub", "Mul", "Div"}

\* operands: identifiers that resolve (Integer, Float, String, Array), that
\* do not (unknown variable, missing key), and literals
Operands ==
  { Var(<<"d", ".", "i", "n", "n", "e", "r">>), Var(<<"f">>), Var(<<"s">>), Var(<<"a">>),
    Var(<<"n", "o", "p", "e">>), Var(<<"d", ".", "x">>),
    Lit(Integer(2)), Lit(String(<<"t">>)) }

\* one operator applied to operands
Simple ==
  {Infix(o, l, r) : o \in Operators, l \in Operands, r \in Operands}
  \cup {Prefix("Neg", e) : e \in Operands}

\* an operator applied to an operation and an operand, on either side
Compound ==
  {Infix(o, l, r) : o \in Operators, l \in Simple, r \in Operands}
  \cup {Infix(o, l, r) : o \in Operators, l \in Operands, r \in Simple}
  \cup {Prefix("Neg", e) : e \in Simple}

Exprs == Operands \cup Simple \cup Compound

\* a Row and a Format for each expression of one operator, or of one
\* operator under a prefix
ExprElements(e) ==
  { Row(<<TextCell(Lit(Integer(1))), TextCell(e)>>),
    Format(<<"h">>, <<Modifier(<<"s", "i", "z", "e">>, e)>>) }

ExprPrograms ==
  { <<element, Cr>> :
      element \in UNION {ExprElements(e) :
                           e \in Operands \cup Simple \cup {Prefix("Neg", x) : x \in Simple}} }

\* the element lists handed to run
Programs ==
  SeqsUpTo(TopLeaves, MaxItems)
  \cup { pre \o <<loop>> \o post : pre \in Around, post \in Around, loop \in Loops }
  \cup { <<loop>> \o post : post \in Around, loop \in NestedLoops \cup DeepLoops }
  \cup ExprPrograms

\* the error a SheetProcessor may return from process
ConsumerError == <<"consumer error">>

\* ----------------------------------------------------- VM: state machine

VARIABLES
  scopes,   \* VM.scopes (Scopes: top and the saved scopes)
  stack,    \* the active calls of run and for_loop, the innermost last
  log,      \* the elements handed to SheetProcessor::process, in call order
  ret,      \* what the outermost run has returned, or that it is running
  items0,   \* the element list the outermost run was called with
  scopes0,  \* VM.scopes when the outermost run was called
  op,       \* the last Scopes operation applied by the scope-stack driver
  before    \* the Scopes that operation was applied to

vars == <<scopes, stack, log, ret, items0, scopes0, op, before>>

Running == [st |-> "running"]

Returned(r) == IF r.ok THEN [st |-> "ok"] ELSE [st |-> "err", err |-> r.err]

\* Option::expect("no pushed scope") failing in Scopes::exit
Panicked == [st |-> "panic"]

RunFrame(items) == [fn |-> "run", items |-> items, pc |-> 1]

\* a loop that skips the first element (arr.iter().enumerate().skip(1))
ForLoopFrame_skip_first(for_loop, arr) ==
  [fn |-> "for_loop", for_loop |-> for_loop, arr |-> arr, i |-> 1, phase |-> "iter"]

\* a loop over the first element only (arr.iter().take(1))
ForLoopFrame_first_only(for_loop, arr) ==
  [fn |-> "for_loop", for_loop |-> for_loop, arr |-> SubSeq(arr, 1, 1), i |-> 0,
   phase |-> "iter"]

ForLoopFrame(for_loop, arr) ==
  [fn |-> "for_loop", for_loop |-> for_loop, arr |-> arr, i |-> 0, phase |-> "iter"]

Top == stack[Len(stack)]

Pop(s) == SubSeq(s, 1, Len(s) - 1)

InRun == stack # << >> /\ Top.fn = "run"

InForLoop == stack # << >> /\ Top.fn = "for_loop"

AtItem(kinds) == InRun /\ Top.pc <= Len(Top.items) /\ Top.items[Top.pc].kind \in kinds

Item == Top.items[Top.pc]

\* the next item of the `for item in items` loop
NextItem(s) == [s EXCEPT ![Len(s)].pc = @ + 1]

\* an error that ends only the innermost run (`let _ = self.run(..)` in for_loop)
Propagate_innermost(err) ==
  /\ stack' = Pop(stack)
  /\ ret' = IF Len(stack) = 1 THEN Returned(Err(err)) ELSE ret

\* `?` on an Err: every active call returns it at once
Propagate(err) == stack' = << >> /\ ret' = Returned(Err(err))

\* processor.process(&element)?
Process(element) ==
  /\ log' = Append(log, element)
  /\ \E result \in {Ok(<< >>), Err(ConsumerError)} :
       IF result.ok THEN stack' = NextItem(stack) /\ ret' = ret
       ELSE Propagate(result.err)

NoScopeOp == UNCHANGED <<op, before>>

Init ==
  /\ items0 \in Programs
  /\ scopes0 \in InitialScopes
  /\ scopes = scopes0
  /\ stack = <<RunFrame(items0)>>
  /\ log = << >>
  /\ ret = Running
  /\ op = [name |-> "new"]
  /\ before = Scopes_new

\* `let e = resolved?; processor.process(&e)?`
ProcessResolved(resolved) ==
  IF resolved.ok THEN Process(resolved.val)
  ELSE Propagate(resolved.err) /\ UNCHANGED log

\* VM::run, Element::Format
RunFormat ==
  /\ AtItem({"Format"})
  /\ ProcessResolved(resolve_format(scopes, Item))
  /\ UNCHANGED <<scopes, items0, scopes0>> /\ NoScopeOp

\* VM::run, Element::Row
RunRow ==
  /\ AtItem({"Row"})
  /\ ProcessResolved(VM_resolve(scopes, Item))
  /\ UNCHANGED <<scopes, items0, scopes0>> /\ NoScopeOp

\* a `_` arm that drops the element (`_ => {}`)
RunOther_dropped ==
  /\ AtItem({"Sheet", "Anchor", "Mover", "Cr", "Autofit", "Column", "RowSpec"})
  /\ stack' = NextItem(stack)
  /\ UNCHANGED <<log, ret, scopes, items0, scopes0>> /\ NoScopeOp

\* VM::run, the `_` arm
RunOther ==
  /\ AtItem({"Sheet", "Anchor", "Mover", "Cr", "Autofit", "Column", "RowSpec"})
  /\ Process(Item)
  /\ UNCHANGED <<scopes, items0, scopes0>> /\ NoScopeOp

\* a for_loop that iterates once over a value that is not an Array
ForLoopOver_singleton(for_loop, value) ==
  IF ~value.ok THEN Propagate(value.err)
  ELSE /\ ret' = ret
       /\ stack' = Append(stack, ForLoopFrame(for_loop,
                      IF value.val.kind = "Array" THEN value.val.arr ELSE <<value.val>>))

\* a for_loop that takes a source that does not resolve for one that is not
\* an Array
ForLoopOver_unresolved_skipped(for_loop, value) ==
  /\ ret' = ret
  /\ IF value.ok /\ value.val.kind = "Array"
     THEN stack' = Append(stack, ForLoopFrame(for_loop, value.val.arr))
     ELSE stack' = NextItem(stack)

\* VM::for_loop, lines 55-56: `let value = ...?; if let Value::Array(arr) = value`
ForLoopOver(for_loop, value) ==
  IF ~value.ok THEN Propagate(value.err)
  ELSE /\ ret' = ret
       /\ IF value.val.kind = "Array"
          THEN stack' = Append(stack, ForLoopFrame(for_loop, value.val.arr))
          ELSE stack' = NextItem(stack)

\* VM::run, Element::ForLoop: the call of for_loop up to its `if let`
RunForLoop ==
  /\ AtItem({"ForLoop"})
  /\ ForLoopOver(Item, resolve_expression(scopes, Item.expression))
  /\ UNCHANGED <<scopes, log, items0, scopes0>> /\ NoScopeOp

\* an iteration that counts `index` from 1
IterationScopes_one_based(s, variable, i, v) ==
  [Scopes_enter(s) EXCEPT
     !.top = Scope_define(Scope_define(@, S_index, Integer(i + 1)), Tail(variable), v)]

\* an iteration that defines into the current top without enter
IterationScopes_no_enter(s, variable, i, v) ==
  [s EXCEPT
     !.top = Scope_define(Scope_define(@, S_index, Integer(i)), Tail(variable), v)]

\* an iteration that defines into the current top and then enters
IterationScopes_define_then_enter(s, variable, i, v) ==
  Scopes_enter([s EXCEPT
     !.top = Scope_define(Scope_define(@, S_index, Integer(i)), Tail(variable), v)])

\* an iteration that defines the loop variable first and `index` after it
IterationScopes_variable_first(s, variable, i, v) ==
  [Scopes_enter(s) EXCEPT
     !.top = Scope_define(Scope_define(@, Tail(variable), v), S_index, Integer(i))]

\* VM::for_loop: enter and the two defines of one iteration
IterationScopes(s, variable, i, v) ==
  [Scopes_enter(s) EXCEPT
     !.top = Scope_define(Scope_define(@, S_index, Integer(i)), Tail(variable), v)]

\* VM::for_loop: the next iteration, up to the call of run on the body
ForLoopIter ==
  /\ InForLoop /\ Top.phase = "iter" /\ Top.i < Len(Top.arr)
  /\ scopes' = IterationScopes(scopes, Top.for_loop.variable, Top.i, Top.arr[Top.i + 1])
  /\ stack' = Append([stack EXCEPT ![Len(stack)].phase = "body"],
                     RunFrame(Top.for_loop.elements))
  /\ UNCHANGED <<log, ret, items0, scopes0>> /\ NoScopeOp

\* VM::for_loop: the body's run returned Ok; scopes.exit()
ForLoopExit ==
  /\ InForLoop /\ Top.phase = "body"
  /\ IF scopes.scopes = << >>
     THEN stack' = << >> /\ ret' = Panicked /\ UNCHANGED scopes
     ELSE /\ scopes' = Scopes_exit(scopes)
          /\ stack' = [stack EXCEPT ![Len(stack)].i = @ + 1,
                                    ![Len(stack)].phase = "iter"]
          /\ ret' = ret
  /\ UNCHANGED <<log, items0, scopes0>> /\ NoScopeOp

\* VM::for_loop returns Ok(()) to the run that called it
ForLoopReturn ==
  /\ InForLoop /\ Top.phase = "iter" /\ Top.i >= Len(Top.arr)
  /\ stack' = NextItem(Pop(stack))
  /\ UNCHANGED <<scopes, log, ret, items0, scopes0>> /\ NoScopeOp

\* VM::run returns Ok(()) after the last item
RunReturn ==
  /\ InRun /\ Top.pc > Len(Top.items)
  /\ stack' = Pop(stack)
  /\ ret' = IF Len(stack) = 1 THEN Returned(Ok(<< >>)) ELSE ret
  /\ UNCHANGED <<scopes, log, items0, scopes0>> /\ NoScopeOp

Next ==
  \/ RunFormat
  \/ RunRow
  \/ RunOther
  \/ RunForLoop
  \/ ForLoopIter
  \/ ForLoopExit
  \/ ForLoopReturn
  \/ RunReturn

Spec == Init /\ [][Next]_vars

\* ------------------------------------------- the scope stack on its own

ScopeNames == {<<"a">>, <<"b">>}

\* a name no define binds
Unbound == <<"c">>

ScopeValues == {Integer(1), String(<<"v">>)}

ScopeInit ==
  /\ scopes = Scopes_new
  /\ op = [name |-> "new"]
  /\ before = Scopes_new
  /\ stack = << >>
  /\ log = << >>
  /\ ret = Running
  /\ items0 = << >>
  /\ scopes0 = Scopes_new

NoRun == UNCHANGED <<stack, log, ret, items0, scopes0>>

\* scopes.top.define(name, value)
DoDefine ==
  /\ \E name \in ScopeNames, value \in ScopeValues :
       /\ scopes' = [scopes EXCEPT !.top = Scope_define(@, name, value)]
       /\ op' = [name |-> "define", var |-> name, value |-> value]
  /\ before' = scopes
  /\ NoRun

\* scopes.enter()
DoEnter ==
  /\ Len(scopes.scopes) < MaxScopes
  /\ scopes' = Scopes_enter(scopes)
  /\ op' = [name |-> "enter"]
  /\ before' = scopes
  /\ NoRun

\* scopes.exit(): pop().expect("no pushed scope")
DoExit ==
  /\ IF scopes.scopes = << >>
     THEN /\ scopes' = scopes
          /\ op' = [name |-> "exit", panicked |-> TRUE, after |-> op.name]
     ELSE /\ scopes' = Scopes_exit(scopes)
          /\ op' = [name |-> "exit", panicked |-> FALSE, after |-> op.name]
  /\ before' = scopes
  /\ NoRun

\* scopes.get(var)
DoGet ==
  /\ \E var \in ScopeNames \cup {Unbound} :
       op' = [name |-> "get", var |-> var, result |-> Scopes_get(scopes, var)]
  /\ before' = scopes
  /\ UNCHANGED scopes
  /\ NoRun

\* scopes.get_mut(var)
DoGetMut ==
  /\ \E var \in ScopeNames \cup {Unbound} :
       op' = [name |-> "get_mut", var |-> var, result |-> Scopes_get_mut(scopes, var)]
  /\ before' = scopes
  /\ UNCHANGED scopes
  /\ NoRun

ScopeNext ==
  \/ DoDefine
  \/ DoEnter
  \/ DoExit
  \/ DoGet
  \/ DoGetMut

ScopeSpec == ScopeInit /\ [][ScopeNext]_vars

\* ------------------------------------------------- the expansion of run

\* the calls run makes when no process call fails, and the first error
NoCalls == [calls |-> << >>, err |-> None]

Calls(r) ==
  IF r.ok THEN [calls |-> <<r.val>>, err |-> None]
  ELSE [calls |-> << >>, err |-> Some(r.err)]

\* the scope stack the body of an iteration sees
BodyScopes(s, name, i, v) ==
  [top    |-> IF name = S_index
              THEN <<[key |-> S_index, value |-> v]>>
              ELSE <<[key |-> S_index, value |-> Integer(i)],
                     [key |-> name, value |-> v]>>,
   scopes |-> s.scopes \o <<s.top>>]

RECURSIVE ExpandItems(_, _)
RECURSIVE ExpandIterations(_, _, _, _)

AndThen(first, rest) ==
  IF first.err.some THEN first
  ELSE [calls |-> first.calls \o rest.calls, err |-> rest.err]

ExpandForLoop(for_loop, s, value) ==
  IF ~value.ok THEN Calls(value)
  ELSE IF value.val.kind = "Array" THEN ExpandIterations(for_loop, s, value.val.arr, 0)
  ELSE NoCalls

ExpandItem(item, s) ==
  CASE item.kind = "Format" -> Calls(resolve_format(s, item))
    [] item.kind = "Row" -> Calls(VM_resolve(s, item))
    [] item.kind = "ForLoop" ->
         ExpandForLoop(item, s, resolve_expression(s, item.expression))
    [] OTHER -> Calls(Ok(item))

ExpandItems(items, s) ==
  IF items = << >> THEN NoCalls
  ELSE AndThen(ExpandItem(Head(items), s), ExpandItems(Tail(items), s))

ExpandIterations(for_loop, s, arr, i) ==
  IF i >= Len(arr) THEN NoCalls
  ELSE AndThen(ExpandItems(for_loop.elements,
                           BodyScopes(s, Tail(for_loop.variable), i, arr[i + 1])),
               ExpandIterations(for_loop, s, arr, i + 1))

\* the expansion of the outermost run
Expansion == ExpandItems(items0, scopes0)

IsPrefix(p, q) == Len(p) <= Len(q) /\ p = SubSeq(q, 1, Len(p))

Succeeded == ret.st = "ok"

Failed == ret.st = "err"

\* the body of the loop `f` at stack[k] is the innermost running list
InBodyOf(k) ==
  /\ k + 1 = Len(stack)
  /\ stack[k].fn = "for_loop"
  /\ stack[k + 1].fn = "run"

\* ------------------------------------------------------------ properties

LoopFrames == {k \in 1..Len(stack) : stack[k].fn = "for_loop"}

\* the for_loop calls that are inside an iteration (between enter and exit)
BodyDepth == Cardinality({k \in LoopFrames : stack[k].phase = "body"})

\* the body of some loop is the innermost running list, in iteration i
InIteration(k, i) ==
  /\ InBodyOf(k)
  /\ stack[k].for_loop.variable # Id(S_index)
  /\ stack[k].i = i

BodyBindings ==
  \A k \in 1..Len(stack) :
    (InBodyOf(k) /\ stack[k].for_loop.variable # Id(S_index)) =>
      /\ stack[k].i < Len(stack[k].arr)
      /\ stack[k].phase = "body"
      /\ resolve_identifier(scopes, Id(S_index)) = Some(Integer(stack[k].i))
      /\ resolve_identifier(scopes, stack[k].for_loop.variable)
           = Some(stack[k].arr[stack[k].i + 1])
      /\ Scopes_get(scopes, S_index) = Ok(Integer(stack[k].i))

\* a for_loop call starts at element 0 of the Array its source resolved to
LoopStarts ==
  (Len(stack') = Len(stack) + 1 /\ Top'.fn = "for_loop") =>
    /\ Top'.i = 0
    /\ Top'.phase = "iter"
    /\ Top'.for_loop = Item
    /\ resolve_expression(scopes, Item.expression) = Ok(Array(Top'.arr))

\* a body starts only for an element that exists, from its first item
BodyStarts ==
  (Len(stack') = Len(stack) + 1 /\ Top'.fn = "run") =>
    /\ InForLoop
    /\ Top.phase = "iter"
    /\ Top.i < Len(Top.arr)
    /\ stack'[Len(stack)] = [Top EXCEPT !.phase = "body"]
    /\ Top' = RunFrame(Top.for_loop.elements)

\* a body that returned is followed by the next element's iteration
BodyEnds ==
  (InForLoop /\ Top.phase = "body" /\ stack' # << >>) =>
    stack' = [stack EXCEPT ![Len(stack)].i = @ + 1, ![Len(stack)].phase = "iter"]

\* for_loop returns only after the last element
LoopReturns ==
  (InForLoop /\ Len(stack') = Len(stack) - 1) => Top.i = Len(Top.arr)

\* the calls below the innermost one do not move
OuterCallsWait ==
  \A k \in 1..(Len(stack) - 1) : k < Len(stack') => stack'[k] = stack[k]

\* C1: a for-loop over an Array of length n whose variable is not `index`
\* runs its body exactly n times in array order (the call starts at element
\* 0, a body starts only for an existing element, each returned body moves to
\* the next element, and the call returns only after element n-1), and while
\* the body of iteration i runs `index` resolves to Integer i and the loop
\* variable (sigil stripped) to the i-th element
C1_LoopIterations ==
  /\ []BodyBindings
  /\ [][LoopStarts /\ BodyStarts /\ BodyEnds /\ LoopReturns /\ OuterCallsWait]_vars

\* the second iteration of a loop nested in another loop's body is running
C1_Witness ==
  /\ ret = Running
  /\ Len(stack) >= 4
  /\ InIteration(Len(stack) - 1, 1)
  /\ Len(stack[Len(stack) - 1].arr) = MaxArr

Visible == {S_index, <<"x">>, <<"a">>, <<"y">>, <<"n">>}

\* C2: after a run that returned Ok the scope stack is what it was before the
\* call: the same saved scopes, the same top scope, the same lookups
C2_ScopesRestored ==
  Succeeded =>
    /\ Len(scopes.scopes) = Len(scopes0.scopes)
    /\ scopes.top = scopes0.top
    /\ scopes.scopes = scopes0.scopes
    /\ \A name \in Visible : Scopes_get(scopes, name) = Scopes_get(scopes0, name)

HasNestedLoop(items) ==
  \E j \in 1..Len(items) :
    /\ items[j].kind = "ForLoop"
    /\ \E k \in 1..Len(items[j].elements) : items[j].elements[k].kind = "ForLoop"

\* a run of nested loops returned Ok after iterations, over saved scopes
C2_Witness ==
  /\ Succeeded
  /\ HasNestedLoop(items0)
  /\ scopes0.scopes # << >>
  /\ Len(log) >= 3

IsResolved(e) == e.kind = "Primary" /\ e.expression.kind = "Value"

FullyResolved(element) ==
  /\ element.kind # "ForLoop"
  /\ element.kind = "Format" =>
       \A j \in 1..Len(element.modifiers) : IsResolved(element.modifiers[j].expression)
  /\ element.kind = "Row" =>
       \A j \in 1..Len(element.cells) : IsResolved(element.cells[j].value)

\* C3: every element handed to process is fully resolved: never a ForLoop,
\* and every Format modifier and Row cell carries Primary(Value)
C3_FullyResolved == \A k \in 1..Len(log) : FullyResolved(log[k])

\* a Format with modifiers and a Row with cells were handed to process
C3_Witness ==
  \E j, k \in 1..Len(log) :
    /\ log[j].kind = "Format" /\ Len(log[j].modifiers) = 2
    /\ log[k].kind = "Row" /\ Len(log[k].cells) = 2

\* C4: in a run that returned Ok the process calls are exactly the in-order
\* expansion of the element list
C4_InOrderExpansion ==
  Succeeded => (Expansion.err = None /\ log = Expansion.calls)

\* an element, then nested loops with several iterations, returned Ok
C4_Witness ==
  /\ Succeeded
  /\ HasNestedLoop(items0)
  /\ Len(log) >= 5
  /\ \E j, k \in 1..Len(log) : log[j] # log[k]

\* the error of the step that made run fail is the one run returned, and the
\* step made at most the process call that failed
FailingStep ==
  (~Failed /\ Failed') =>
    /\ stack' = << >>
    /\ \/ ret'.err = ConsumerError /\ Len(log') = Len(log) + 1 /\ IsPrefix(log, log')
       \/ ret'.err # ConsumerError /\ log' = log

\* C5: run short-circuits on the first error, at any nesting depth: it
\* returns that same error (the first error of the expansion, or the error of
\* the process call that failed), no call stays active, nothing is evaluated
\* or processed after the failure point, and a run in which an evaluation
\* fails does not return Ok
C5_ShortCircuit ==
  /\ [](Failed =>
          /\ stack = << >>
          /\ ret.err # ConsumerError => Expansion.err = Some(ret.err))
  /\ [](Succeeded => Expansion.err = None)
  /\ [][FailingStep /\ ~Failed]_vars

\* an evaluation failed two loops deep, after process calls
C5_Witness ==
  /\ Failed
  /\ ret.err # ConsumerError
  /\ Len(scopes.scopes) = Len(scopes0.scopes) + 2
  /\ log # << >>

\* the elements process accepted before run failed
Delivered ==
  IF ret.err = ConsumerError THEN SubSeq(log, 1, Len(log) - 1) ELSE log

\* C6 as stated: when run fails the consumer has been handed no element that
\* precedes the failing one
C6_NoPartialOutput == Failed => Delivered = << >>

\* C6, amended: when run fails the consumer has been handed exactly the
\* elements of the in-order expansion that precede the failure point (and the
\* element whose process call failed), and none after it
C6_PrefixDelivered ==
  Failed =>
    IF ret.err = ConsumerError
    THEN log # << >> /\ IsPrefix(log, Expansion.calls)
    ELSE log = Expansion.calls

\* a process call failed after process had accepted elements of two iterations
C6_Witness ==
  /\ Failed
  /\ ret.err = ConsumerError
  /\ Len(Delivered) >= 3
  /\ Len(scopes.scopes) > Len(scopes0.scopes)

NotAnArray(r) == r.ok /\ r.val.kind \in {"Integer", "Float", "String", "Boolean", "Object"}

\* for_loop over a value that is not an Array returns Ok at once
NonArrayLoopStep ==
  (AtItem({"ForLoop"}) /\ NotAnArray(resolve_expression(scopes, Item.expression))) =>
    /\ stack' = NextItem(stack)
    /\ log' = log
    /\ scopes' = scopes
    /\ ret' = ret

OnlyLoop(items) == Len(items) = 1 /\ items[1].kind = "ForLoop"

\* C7: a for-loop whose source resolves to a value that is not an Array runs
\* its body zero times, makes no process call, leaves the scope stack
\* unchanged and returns Ok
C7_NonArrayLoop ==
  /\ [][NonArrayLoopStep]_vars
  /\ []((/\ OnlyLoop(items0)
         /\ NotAnArray(resolve_expression(scopes0, items0[1].expression))
         /\ ret # Running)
        => (Succeeded /\ log = << >> /\ scopes = scopes0))

\* a run of one loop over an Object, with a body, returned
C7_Witness ==
  /\ OnlyLoop(items0)
  /\ items0[1].elements # << >>
  /\ resolve_expression(scopes0, items0[1].expression) = Ok(EnvDict)
  /\ Succeeded

\* C8: exit is never called with no saved scope (the panic is unreachable),
\* and while loop bodies are running d deep the number of saved scopes is
\* the number at the start of run plus d
C8_BalancedScopes ==
  /\ ret # Panicked
  /\ ret = Running => Len(scopes.scopes) = Len(scopes0.scopes) + BodyDepth
  /\ (InForLoop /\ Top.phase = "body") => scopes.scopes # << >>

\* a body three loops deep is running over no saved scope at the start
C8_Witness ==
  /\ scopes0.scopes = << >>
  /\ BodyDepth = 3
  /\ Len(scopes.scopes) = 3
  /\ InRun

Lookups == ScopeNames \cup {Unbound}

\* C9: enter followed immediately by exit restores the state before enter:
\* the same saved scopes, the same top scope, the same get for every name
C9_EnterExit ==
  [][(op.name = "enter" /\ op'.name = "exit") =>
       /\ ~op'.panicked
       /\ scopes'.scopes = before.scopes
       /\ scopes'.top = before.top
       /\ \A name \in Lookups : Scopes_get(scopes', name) = Scopes_get(before, name)]_vars

\* exit right after enter, over bindings in the top and in a saved scope
C9_Witness ==
  /\ op.name = "exit"
  /\ op.after = "enter"
  /\ Len(scopes.top) = 2
  /\ scopes.scopes # << >>
  /\ scopes.scopes[1] # << >>

Binds(scope, var) == \E j \in 1..Len(scope) : scope[j].key = var

BoundValue(scope, var) == scope[CHOOSE j \in 1..Len(scope) : scope[j].key = var].value

\* the saved scopes that bind var, by position (the last is the most recent)
Binders(s, var) == {k \in 1..Len(s.scopes) : Binds(s.scopes[k], var)}

MostRecent(K) == CHOOSE k \in K : \A j \in K : j <= k

Lookup(s, var) ==
  IF Binds(s.top, var) THEN Ok(BoundValue(s.top, var))
  ELSE IF Binders(s, var) # {}
       THEN Ok(BoundValue(s.scopes[MostRecent(Binders(s, var))], var))
       ELSE Err(<<"unknown variable: ">> \o var)

\* C10: get and get_mut return the binding of the top scope if it has one,
\* otherwise that of the most recently pushed saved scope that binds the
\* name, and fail with `unknown variable` exactly when no scope binds it
C10_Lookup ==
  op.name \in {"get", "get_mut"} =>
    /\ op.result = Lookup(before, op.var)
    /\ ~op.result.ok <=> (~Binds(before.top, op.var) /\ Binders(before, op.var) = {})

\* a name the top does not bind, bound to different values in two saved scopes
C10_Witness ==
  /\ op.name = "get"
  /\ ~Binds(before.top, op.var)
  /\ Len(before.scopes) = 2
  /\ Binders(before, op.var) = {1, 2}
  /\ BoundValue(before.scopes[1], op.var) # BoundValue(before.scopes[2], op.var)

\* define changes the binding of its name in the top scope and nothing else
DefineFrame ==
  op'.name = "define" =>
    /\ scopes'.scopes = scopes.scopes
    /\ Len(scopes'.top) = Len(scopes.top) + (IF Binds(scopes.top, op'.var) THEN 0 ELSE 1)
    /\ \A name \in Lookups :
         Scope_get(scopes'.top, name)
           = IF name = op'.var THEN Some(op'.value) ELSE Scope_get(scopes.top, name)

\* the lookup of var in the saved scopes alone
OuterLookup(s, var) ==
  IF Binders(s, var) # {}
  THEN Ok(BoundValue(s.scopes[MostRecent(Binders(s, var))], var))
  ELSE Err(<<"unknown variable: ">> \o var)

\* after define in an entered scope and then exit, the name has the value
\* the outer scopes gave it before the define
ShadowEnds ==
  (op.name = "define" /\ op'.name = "exit" /\ ~op'.panicked) =>
    Scopes_get(scopes', op.var) = OuterLookup(before, op.var)

\* C11: define inserts or overwrites the binding of its name in the top scope
\* only: the other bindings of the top scope and all saved scopes are
\* unchanged, so a name shadowed in an entered scope has its outer value
\* again after exit
C11_DefineTopOnly == [][DefineFrame /\ ShadowEnds]_vars

\* exit right after a define that shadowed a name bound to another value in
\* the scope exit returns to, whose top held another binding as well
C11_Witness ==
  /\ op.name = "exit"
  /\ op.after = "define"
  /\ Len(before.top) = 2
  /\ \E name \in ScopeNames :
       /\ Binds(before.top, name)
       /\ Binds(scopes.top, name)
       /\ BoundValue(before.top, name) # BoundValue(scopes.top, name)

\* --------------------------------------------------- parser: strings

\* the slice between a leading and a trailing double quote, or all of s
StripQuotes(s) ==
  IF Len(s) >= 2 /\ s[1] = "\"" /\ s[Len(s)] = "\"" THEN SubSeq(s, 2, Len(s) - 1)
  ELSE s

\* an escape that stands for the character after the backslash itself
Unescape_literal(c) == c

\* the character pushed for c after a backslash
Unescape(c) ==
  CASE c = "n" -> "\n"
    [] c = "r" -> "\r"
    [] c = "t" -> "\t"
    [] c = "\\" -> "\\"
    [] c = "\"" -> "\""
    [] OTHER -> c

\* `for c in chars`, from the k-th character on
RECURSIVE DecodeChars(_, _, _, _)
DecodeChars(chars, k, quoted, buffer) ==
  IF k > Len(chars) THEN buffer
  ELSE IF quoted THEN DecodeChars(chars, k + 1, FALSE, Append(buffer, Unescape(chars[k])))
  ELSE IF chars[k] = "\\" THEN DecodeChars(chars, k + 1, TRUE, buffer)
  ELSE DecodeChars(chars, k + 1, FALSE, Append(buffer, chars[k]))

\* decode_string
decode_string(s) == DecodeChars(StripQuotes(s), 1, FALSE, << >>)

\* ------------------------------------------------ parser: expressions

\* the pairs of the grammar's rules that parse_expr consumes
ExpressionPair(e) == [rule |-> "expression", expression |-> e]

ExprPair(inner) == [rule |-> "expr", inner |-> inner]

OperatorPair(rule) == [rule |-> rule]

\* a table whose add and sub associate to the right
PrattOps_right(rule) ==
  CASE rule \in {"add", "sub"} -> [affix |-> "infix", assoc |-> "Right", prec |-> 10]
    [] rule \in {"mul", "div"} -> [affix |-> "infix", assoc |-> "Left", prec |-> 20]
    [] rule = "neg" -> [affix |-> "prefix", assoc |-> "Left", prec |-> 30]
    [] OTHER -> [affix |-> "none", assoc |-> "Left", prec |-> 0]

\* PrattParser::new().op(add | sub).op(mul | div).op(prefix neg): each op
\* call raises the precedence by one step of 10
PrattOps(rule) ==
  CASE rule \in {"add", "sub"} -> [affix |-> "infix", assoc |-> "Left", prec |-> 10]
    [] rule \in {"mul", "div"} -> [affix |-> "infix", assoc |-> "Left", prec |-> 20]
    [] rule = "neg" -> [affix |-> "prefix", assoc |-> "Left", prec |-> 30]
    [] OTHER -> [affix |-> "none", assoc |-> "Left", prec |-> 0]

\* map_infix
MapInfix(lhs, rule, rhs) ==
  CASE rule = "add" -> Infix("Add", lhs, rhs)
    [] rule = "sub" -> Infix("Sub", lhs, rhs)
    [] rule = "mul" -> Infix("Mul", lhs, rhs)
    [] rule = "div" -> Infix("Div", lhs, rhs)

RECURSIVE PrattExpr(_, _, _)

\* map_primary: an `expression` pair, or the `expr` inside parentheses
MapPrimary(pair) ==
  IF pair.rule = "expression" THEN Primary(pair.expression)
  ELSE PrattExpr(pair.inner, 1, 0).tree

\* map_prefix on the operand parsed after the prefix
MapPrefix(rhs) == [tree |-> Prefix("Neg", rhs.tree), pos |-> rhs.pos]

\* the null denotation: a prefix operator and its operand, or a primary
Nud(pairs, pos) ==
  IF PrattOps(pairs[pos].rule).affix = "prefix"
  THEN MapPrefix(PrattExpr(pairs, pos + 1, PrattOps(pairs[pos].rule).prec - 1))
  ELSE [tree |-> MapPrimary(pairs[pos]), pos |-> pos + 1]

\* the binding power of the pair at pos, 0 at the end
Lbp(pairs, pos) == IF pos > Len(pairs) THEN 0 ELSE PrattOps(pairs[pos].rule).prec

InfixOf(lhs, rule, rhs) == [tree |-> MapInfix(lhs.tree, rule, rhs.tree), pos |-> rhs.pos]

\* the left denotation: the infix operator at lhs.pos and its right operand
Led(pairs, lhs, o) ==
  InfixOf(lhs, pairs[lhs.pos].rule,
          PrattExpr(pairs, lhs.pos + 1, IF o.assoc = "Left" THEN o.prec ELSE o.prec - 1))

\* `while rbp < self.lbp(pairs) { lhs = self.led(pairs, lhs) }`
RECURSIVE PrattLoop(_, _, _)
PrattLoop(pairs, lhs, rbp) ==
  IF rbp < Lbp(pairs, lhs.pos)
  THEN PrattLoop(pairs, Led(pairs, lhs, PrattOps(pairs[lhs.pos].rule)), rbp)
  ELSE lhs

\* PrattParserMap::expr
PrattExpr(pairs, pos, rbp) == PrattLoop(pairs, Nud(pairs, pos), rbp)

\* parse_expr
parse_expr(pairs) == PrattExpr(pairs, 1, 0).tree

\* the literals of the expressions parsed
Atoms ==
  { ExprValue(String(<<"a">>)), ExprValue(Integer(1)), ExprValue(Integer(2)),
    ExprValue(Integer(6)) }

\* an operand as written: a primary, a negated primary, or a parenthesized
\* or negated parenthesized operation
Written ==
  {[form |-> "atom", e |-> e] : e \in Atoms}
  \cup {[form |-> "neg", e |-> e] : e \in Atoms}
  \cup {[form |-> f, lhs |-> ExprValue(Integer(1)), rule |-> "add",
         rhs |-> ExprValue(Integer(2))] : f \in {"paren", "negparen"}}

\* the pairs of an operand as written
PairsOf(w) ==
  CASE w.form = "atom" -> <<ExpressionPair(w.e)>>
    [] w.form = "neg" -> <<OperatorPair("neg"), ExpressionPair(w.e)>>
    [] w.form = "paren" ->
         <<ExprPair(<<ExpressionPair(w.lhs), OperatorPair(w.rule), ExpressionPair(w.rhs)>>)>>
    [] w.form = "negparen" ->
         <<OperatorPair("neg"),
           ExprPair(<<ExpressionPair(w.lhs), OperatorPair(w.rule), ExpressionPair(w.rhs)>>)>>

InfixRules == {"add", "sub", "mul", "div"}

\* operands and the infix operators between them, as written left to right
WrittenExprs ==
  {[operands |-> <<a>>, rules |-> << >>] : a \in Written}
  \cup {[operands |-> <<a, b>>, rules |-> <<o>>] : a \in Written, b \in Written, o \in InfixRules}
  \cup {[operands |-> <<a, b, c>>, rules |-> <<o, q>>] :
          a \in Written, b \in Written, c \in Written, o \in InfixRules, q \in InfixRules}

RECURSIVE PairsFrom(_, _)
PairsFrom(w, k) ==
  IF k = Len(w.operands) THEN PairsOf(w.operands[k])
  ELSE PairsOf(w.operands[k]) \o <<OperatorPair(w.rules[k])>> \o PairsFrom(w, k + 1)

\* ------------------------------------------- the pure functions, called

\* the longest dotted path, in segments
MaxPath == 3

\* path segments: names bound by Env, keys, indices, and names of nothing
Segments ==
  { <<"d">>, <<"i", "n", "n", "e", "r">>, <<"l">>, <<"a">>, <<"m">>, <<"n">>,
    <<"n", "o", "p", "e">>, <<"x">>, <<"0">>, <<"1">>, <<"7">>, <<"0", "1">> }

RECURSIVE Dotted(_)
Dotted(segs) ==
  IF Len(segs) = 1 THEN segs[1] ELSE segs[1] \o <<".">> \o Dotted(Tail(segs))

Paths == SeqsUpTo(Segments, MaxPath) \ {<< >>}

\* the calls to make, with their arguments
Pending(fn, args) == [name |-> "call", fn |-> fn, args |-> args]

ResolveIdentifierCalls == {Pending("resolve_identifier", segs) : segs \in Paths}

ResolveExprCalls == {Pending("resolve_expr", e) : e \in Exprs}

\* the largest Integer operand
MaxInt == 6

IntegerValues == {Integer(i) : i \in {-MaxInt - 1, 0, 3, MaxInt}}

\* finite floats, the infinities and NaN
FloatValues ==
  { Float(1, 2), Float(-3, 2), Float(2, 1), Float(0, 1),
    Float(1, 0), Float(-1, 0), Float(0, 0) }

StringValues == {String(<< >>), String(<<"a">>)}

BooleanValues == {Boolean(TRUE), Boolean(FALSE)}

ArrayValues == {Array(q) : q \in SeqsUpTo({Integer(1), String(<<"a">>)}, MaxArr)}

ObjectValues == {Object(<< >>), Object(<<[key |-> <<"k">>, value |-> Integer(1)]>>)}

Values ==
  IntegerValues \cup FloatValues \cup StringValues \cup BooleanValues
  \cup ArrayValues \cup ObjectValues

ArithmeticCalls ==
  {Pending(fn, <<lhs, rhs>>) : fn \in {"add", "sub", "mul", "div"}, lhs \in Values, rhs \in Values}

\* the operands of neg: every kind, and the ends of the i64 range
NegCalls ==
  {Pending("neg", <<v>>) : v \in Values \cup {Integer(MinI64), Integer(MinI64 + 1), Integer(MaxI64)}}

\* the longest source text decoded, but for the quoted example
MaxText == 4

TextChars == {"a", "n", "r", "t", "\\", "\""}

\* "a\nb\"c" as written in a source
QuotedExample == <<"\"", "a", "\\", "n", "b", "\\", "\"", "c", "\"">>

DecodeStringCalls ==
  {Pending("decode_string", <<s>>) : s \in SeqsUpTo(TextChars, MaxText) \cup {QuotedExample}}

\* segments of paths with gaps: the empty segment among them
GapSegments == {<<"d">>, <<"i", "n", "n", "e", "r">>, <<"l">>, <<"0">>, << >>}

PathSplitterCalls ==
  {Pending("PathSplitter", segs) : segs \in SeqsUpTo(GapSegments, MaxPath) \ {<< >>}}

ParseExprCalls == {Pending("parse_expr", w) : w \in WrittenExprs}

\* one call is pending, of one of the families
PendingCall(c) ==
  \/ c \in ResolveIdentifierCalls
  \/ c \in ResolveExprCalls
  \/ c \in ArithmeticCalls
  \/ c \in ParseExprCalls
  \/ c \in NegCalls
  \/ c \in DecodeStringCalls
  \/ c \in PathSplitterCalls

EvalInit ==
  /\ scopes \in InitialScopes
  /\ PendingCall(op)
  /\ before = Scopes_new
  /\ stack = << >>
  /\ log = << >>
  /\ ret = Running
  /\ items0 = << >>
  /\ scopes0 = Scopes_new

NoEffect == UNCHANGED <<scopes, before, stack, log, ret, items0, scopes0>>

IsCall(fn) == op.name = "call" /\ op.fn = fn

\* scopes.resolve_identifier(id), the id written from the segments
CallResolveIdentifier ==
  /\ IsCall("resolve_identifier")
  /\ op' = [name |-> "resolve_identifier", segs |-> op.args,
            id |-> Id(Dotted(op.args)),
            result |-> resolve_identifier(scopes, Id(Dotted(op.args)))]
  /\ NoEffect

\* vm.resolve_expr(expr)
CallResolveExpr ==
  /\ IsCall("resolve_expr")
  /\ op' = [name |-> "resolve_expr", expr |-> op.args,
            result |-> resolve_expr(scopes, op.args)]
  /\ NoEffect

Called(fn, result) ==
  op' = [name |-> fn, lhs |-> op.args[1], rhs |-> op.args[2], result |-> result]

\* lhs.add(rhs)
CallAdd ==
  /\ IsCall("add")
  /\ Called("add", add(op.args[1], op.args[2]))
  /\ NoEffect

\* lhs.sub(rhs)
CallSub ==
  /\ IsCall("sub")
  /\ Called("sub", sub(op.args[1], op.args[2]))
  /\ NoEffect

\* lhs.mul(rhs)
CallMul ==
  /\ IsCall("mul")
  /\ Called("mul", mul(op.args[1], op.args[2]))
  /\ NoEffect

\* lhs.div(rhs)
CallDiv ==
  /\ IsCall("div")
  /\ Called("div", div(op.args[1], op.args[2]))
  /\ NoEffect

\* parse_expr(pairs, &pratt) on the pairs of a written expression, and
\* resolve_expr on the tree
CallParseExpr ==
  /\ IsCall("parse_expr")
  /\ op' = [name |-> "parse_expr", written |-> op.args,
            pairs |-> PairsFrom(op.args, 1),
            result |-> parse_expr(PairsFrom(op.args, 1)),
            value |-> resolve_expr(scopes, parse_expr(PairsFrom(op.args, 1)))]
  /\ NoEffect

\* a thread that panicked
Panic(what) == [ok |-> FALSE, panic |-> what]

\* the result of an operation in a build with or without overflow checks
Built(r, overflow_checks) ==
  IF IsOverflow(r) THEN (IF overflow_checks THEN Panic(r.err) ELSE Ok(r.wrapped))
  ELSE r

\* a second neg, applied to the value of the first when it returned one
NegAgain(first, overflow_checks) ==
  IF first.ok THEN Built(neg(first.val), overflow_checks) ELSE first

\* v.neg() and then neg() of its value, in either build
CallNeg ==
  /\ IsCall("neg")
  /\ \E overflow_checks \in BOOLEAN :
       op' = [name |-> "neg", v |-> op.args[1], overflow_checks |-> overflow_checks,
              first |-> Built(neg(op.args[1]), overflow_checks),
              second |-> NegAgain(Built(neg(op.args[1]), overflow_checks), overflow_checks)]
  /\ NoEffect

\* decode_string(s)
CallDecodeString ==
  /\ IsCall("decode_string")
  /\ op' = [name |-> "decode_string", s |-> op.args[1], result |-> decode_string(op.args[1])]
  /\ NoEffect

\* PathSplitter::new(path) iterated to its end, and resolve_identifier on
\* the identifier of that path
CallPathSplitter ==
  /\ IsCall("PathSplitter")
  /\ op' = [name |-> "PathSplitter", segs |-> op.args, path |-> Dotted(op.args),
            yielded |-> Yielded(PathSplitter_new(Dotted(op.args))),
            result |-> resolve_identifier(scopes, Id(Dotted(op.args)))]
  /\ NoEffect

EvalNext ==
  \/ CallResolveIdentifier
  \/ CallResolveExpr
  \/ CallAdd
  \/ CallSub
  \/ CallMul
  \/ CallDiv
  \/ CallParseExpr
  \/ CallNeg
  \/ CallDecodeString
  \/ CallPathSplitter

EvalSpec == EvalInit /\ [][EvalNext]_vars

\* the segments that are numbers, and the index each one denotes
IndexSegments == {<<"0">>, <<"1">>, <<"7">>, <<"0", "1">>}

SegmentIndex(seg) ==
  CASE seg = <<"0">> -> 0
    [] seg = <<"1">> -> 1
    [] seg = <<"7">> -> 7
    [] seg = <<"0", "1">> -> 1

RECURSIVE Descend(_, _)

DescendObject(map, segs) ==
  IF Binds(map, Head(segs)) THEN Descend(BoundValue(map, Head(segs)), Tail(segs))
  ELSE None

DescendArray(arr, segs) ==
  IF Head(segs) \in IndexSegments /\ SegmentIndex(Head(segs)) < Len(arr)
  THEN Descend(arr[SegmentIndex(Head(segs)) + 1], Tail(segs))
  ELSE None

\* the value reached from v along the segments, or None
Descend(v, segs) ==
  IF segs = << >> THEN Some(v)
  ELSE CASE v.kind = "Object" -> DescendObject(v.map, segs)
         [] v.kind = "Array" -> DescendArray(v.arr, segs)
         [] OTHER -> None

DescendFrom(root, segs) == IF root.ok THEN Descend(root.val, segs) ELSE None

Reached(s, segs) == DescendFrom(Lookup(s, Head(segs)), Tail(segs))

\* C12: resolve_identifier strips the sigil, looks the first segment up as a
\* variable and descends through the other segments (Object by key, Array by
\* 0-based index), returning the value reached, and None whenever a segment
\* fails: unknown root, missing key, non-numeric or out-of-range index,
\* descent into a scalar; `$d.inner` is Integer 1234 and `$d.x` is None
C12_ResolveIdentifier ==
  op.name = "resolve_identifier" =>
    /\ op.result = Reached(scopes, op.segs)
    /\ op.segs = <<<<"d">>, <<"i", "n", "n", "e", "r">>>> => op.result = Some(Integer(1234))
    /\ op.segs = <<<<"d">>, <<"x">>>> => op.result = None
    /\ op.segs = <<<<"m">>, <<"1">>, <<"0">>>> => op.result = Some(Integer(21))
    /\ (Len(op.segs) > 1 /\ op.segs[2] \notin IndexSegments /\ op.segs[1] # <<"d">>)
         => op.result = None

\* an Array element reached through an Object key and a numeric index
C12_Witness ==
  /\ op.name = "resolve_identifier"
  /\ op.id = <<"$", "d", ".", "l", ".", "1">>
  /\ op.result = Some(Integer(6))

RECURSIVE Naive(_, _)

NaiveApply(o, lhs, rhs) ==
  IF ~rhs.ok THEN rhs
  ELSE CASE o = "Add" -> add(lhs, rhs.val)
         [] o = "Sub" -> sub(lhs, rhs.val)
         [] o = "Mul" -> mul(lhs, rhs.val)
         [] o = "Div" -> div(lhs, rhs.val)

NaiveInfix(s, e, lhs) ==
  IF ~lhs.ok THEN lhs ELSE NaiveApply(e.op, lhs.val, Naive(s, e.rhs))

NaivePrefix(operand) == IF operand.ok THEN neg(operand.val) ELSE operand

NaiveIdentifier(v, id) ==
  IF v.some THEN Ok(v.val) ELSE Err(<<"Unresolved identifier: ">> \o id)

\* evaluation without shortcuts: the left operand, then the right operand,
\* then the operator
Naive(s, e) ==
  CASE e.kind = "Infix" -> NaiveInfix(s, e, Naive(s, e.lhs))
    [] e.kind = "Prefix" -> NaivePrefix(Naive(s, e.expr))
    [] e.kind = "Primary" /\ e.expression.kind = "Value" -> Ok(e.expression.value)
    [] e.kind = "Primary" /\ e.expression.kind = "Identifier" ->
         NaiveIdentifier(resolve_identifier(s, e.expression.id), e.expression.id)

\* C14: for every expression tree and scope stack resolve_expr, with its
\* shortcuts for bare identifiers, returns what naive left-then-right
\* evaluation returns: the same Value, or an error in the same cases (and
\* the same error)
C14_NaiveEvaluation ==
  op.name = "resolve_expr" =>
    /\ op.result = Naive(scopes, op.expr)
    /\ op.result.ok <=> Naive(scopes, op.expr).ok

IsBare(e) == e.kind = "Primary" /\ e.expression.kind = "Identifier"

\* both operands of a subtraction taken by the shortcut for bare identifiers,
\* under another operator
C14_Witness ==
  /\ op.name = "resolve_expr"
  /\ op.expr.kind = "Infix"
  /\ op.expr.lhs.kind = "Infix" /\ op.expr.lhs.op = "Sub"
  /\ IsBare(op.expr.lhs.lhs) /\ IsBare(op.expr.lhs.rhs)
  /\ op.result.ok
  /\ op.result.val.kind = "Float"

RECURSIVE ReachedUnresolved(_, _)

UnresolvedIdentifier(v, id) == IF v.some THEN None ELSE Some(id)

\* lhs: the identifier reached in the left operand, if any
ReachedInInfix(s, e, lhs) ==
  IF lhs.some THEN lhs
  ELSE IF Naive(s, e.lhs).ok THEN ReachedUnresolved(s, e.rhs)
  ELSE None

\* the identifier that does not resolve and that evaluation reaches: the
\* first one in evaluation order, unless an operation before it fails
ReachedUnresolved(s, e) ==
  CASE e.kind = "Infix" -> ReachedInInfix(s, e, ReachedUnresolved(s, e.lhs))
    [] e.kind = "Prefix" -> ReachedUnresolved(s, e.expr)
    [] e.kind = "Primary" /\ e.expression.kind = "Value" -> None
    [] e.kind = "Primary" /\ e.expression.kind = "Identifier" ->
         UnresolvedIdentifier(resolve_identifier(s, e.expression.id), e.expression.id)

\* the expressions of the Row or Format that run is at, in order
ItemExprs ==
  IF Item.kind = "Row" THEN [k \in 1..Len(Item.cells) |-> Item.cells[k].value]
  ELSE [k \in 1..Len(Item.modifiers) |-> Item.modifiers[k].expression]

UnresolvedError(id) == [ok |-> FALSE, err |-> <<"Unresolved identifier: ">> \o id]

\* the j-th expression is evaluated and reaches an unresolved identifier
UnresolvedAt(j) ==
  /\ \A k \in 1..(j - 1) : Naive(scopes, ItemExprs[k]).ok
  /\ ReachedUnresolved(scopes, ItemExprs[j]).some

UnresolvedStep ==
  AtItem({"Row", "Format"}) =>
    \A j \in 1..Len(ItemExprs) :
      UnresolvedAt(j) =>
        /\ resolve_expr(scopes, ItemExprs[j])
             = UnresolvedError(ReachedUnresolved(scopes, ItemExprs[j]).val)
        /\ log' = log
        /\ stack' = << >>
        /\ ret' = [st |-> "err",
                   err |-> UnresolvedError(ReachedUnresolved(scopes, ItemExprs[j]).val).err]

\* C13: resolve_expr returns the `Unresolved identifier` error whenever the
\* tree holds, at a position that is evaluated, an identifier that does not
\* resolve (bare, either operand of an infix, under a prefix), and run then
\* fails with it without handing the Row or Format to the consumer
C13_UnresolvedIdentifier == [][UnresolvedStep]_vars

\* run failed on the right operand of an infix in the second cell of a Row
C13_Witness ==
  /\ Failed
  /\ log = << >>
  /\ items0[1].kind = "Row"
  /\ Len(items0[1].cells) = 2
  /\ items0[1].cells[2].value.kind = "Infix"
  /\ IsBare(items0[1].cells[2].value.lhs)
  /\ IsBare(items0[1].cells[2].value.rhs)
  /\ ret.err = <<"Unresolved identifier: ">> \o items0[1].cells[2].value.rhs.expression.id
  /\ resolve_identifier(scopes0, items0[1].cells[2].value.lhs.expression.id).some

IsNumber(v) == v.kind \in {"Integer", "Float"}

IsArray(v) == v.kind = "Array"

IsInvalidOperation(r) == ~r.ok /\ Head(r.err) = "invalid operation: "

\* C15 as stated: sub, mul and div with an Array on either side always return
\* an invalid-operation error
C15_ArrayLengthOnlyInAdd ==
  (op.name \in {"sub", "mul", "div"} /\ (IsArray(op.lhs) \/ IsArray(op.rhs)))
    => IsInvalidOperation(op.result)

\* the number n as a Value of the kind of v
NumberLike(v, f) ==
  IF v.kind = "Integer" THEN Integer(f.num) ELSE FloatOf(f)

NumberOf(v) == IF v.kind = "Integer" THEN IntToF(v.i) ELSE FOf(v)

\* C15, amended: an Array stands for its length in add (on either side of
\* a number) and in sub as the right operand of a number (Integer - Array is
\* the Integer minus the length, Float - Array the Float minus the length);
\* Array - anything, and mul and div with an Array on either side, return an
\* invalid-operation error
C15_ArrayLengthInAddAndSubRight ==
  (op.name \in {"add", "sub", "mul", "div"} /\ (IsArray(op.lhs) \/ IsArray(op.rhs))) =>
    CASE op.name = "add" /\ IsNumber(op.lhs) ->
           op.result = Ok(NumberLike(op.lhs, FAdd(NumberOf(op.lhs), IntToF(Len(op.rhs.arr)))))
      [] op.name = "add" /\ IsNumber(op.rhs) ->
           op.result = Ok(NumberLike(op.rhs, FAdd(IntToF(Len(op.lhs.arr)), NumberOf(op.rhs))))
      [] op.name = "sub" /\ IsNumber(op.lhs) ->
           op.result = Ok(NumberLike(op.lhs, FSub(NumberOf(op.lhs), IntToF(Len(op.rhs.arr)))))
      [] op.name = "add" /\ IsArray(op.lhs) /\ IsArray(op.rhs) -> op.result.ok
      [] OTHER -> IsInvalidOperation(op.result)

\* an Integer minus an Array of two elements
C15_Witness ==
  /\ op.name = "sub"
  /\ op.lhs = Integer(3)
  /\ IsArray(op.rhs) /\ Len(op.rhs.arr) = 2
  /\ op.result = Ok(Integer(1))

OperatorSymbol(fn) ==
  CASE fn = "add" -> "+"
    [] fn = "sub" -> "-"
    [] fn = "mul" -> "*"
    [] fn = "div" -> "/"

\* C16: every invalid-operation error of add, sub, mul, div carries the
\* message `invalid operation: <lhs-kind> <op> <rhs-kind>`, naming the kinds
\* of both operands and the operator that was applied
C16_InvalidOperationMessage ==
  (op.name \in {"add", "sub", "mul", "div"} /\ ~op.result.ok) =>
    op.result.err = <<"invalid operation: ", KindName(op.lhs), " ",
                      OperatorSymbol(op.name), " ", KindName(op.rhs)>>

\* ------------------------------------------------------------------ C17

\* the binding strength the grammar gives an infix operator
Level(rule) == IF rule \in {"mul", "div"} THEN 2 ELSE 1

\* the tree of one operand as written
OperandTree(w) ==
  CASE w.form = "atom" -> Primary(w.e)
    [] w.form = "neg" -> Prefix("Neg", Primary(w.e))
    [] w.form = "paren" -> MapInfix(Primary(w.lhs), w.rule, Primary(w.rhs))
    [] w.form = "negparen" ->
         Prefix("Neg", MapInfix(Primary(w.lhs), w.rule, Primary(w.rhs)))

\* the tree of a written expression: the tighter operator groups first, and
\* of two operators of one level the left one
Grouping(w) ==
  CASE Len(w.rules) = 0 -> OperandTree(w.operands[1])
    [] Len(w.rules) = 1 ->
         MapInfix(OperandTree(w.operands[1]), w.rules[1], OperandTree(w.operands[2]))
    [] Len(w.rules) = 2 /\ Level(w.rules[1]) >= Level(w.rules[2]) ->
         MapInfix(MapInfix(OperandTree(w.operands[1]), w.rules[1],
                           OperandTree(w.operands[2])),
                  w.rules[2], OperandTree(w.operands[3]))
    [] Len(w.rules) = 2 /\ Level(w.rules[1]) < Level(w.rules[2]) ->
         MapInfix(OperandTree(w.operands[1]), w.rules[1],
                  MapInfix(OperandTree(w.operands[2]), w.rules[2],
                           OperandTree(w.operands[3])))

WrittenAtoms(a, o, b, q, c) ==
  [operands |-> <<[form |-> "atom", e |-> ExprValue(a)], [form |-> "atom", e |-> ExprValue(b)],
                  [form |-> "atom", e |-> ExprValue(c)]>>,
   rules |-> <<o, q>>]

\* "a" + 1 + 2
StringPlusOnePlusTwo == WrittenAtoms(String(<<"a">>), "add", Integer(1), "add", Integer(2))

\* 6 - 1 - 2
SixMinusOneMinusTwo == WrittenAtoms(Integer(6), "sub", Integer(1), "sub", Integer(2))

\* C17: parse_expr groups a written expression by precedence, `*` and `/`
\* tighter than `+` and `-`, operators of one level to the left, and unary
\* `-` tighter than every infix operator; `"a" + 1 + 2` becomes
\* Infix(Add, Infix(Add, "a", 1), 2) and evaluates to the String "a12", and
\* `a - b - c` evaluates as (a - b) - c.
C17_PrecedenceLeftAssoc ==
  op.name = "parse_expr" =>
    /\ op.result = Grouping(op.written)
    /\ op.written = StringPlusOnePlusTwo =>
         /\ op.result = Infix("Add", Infix("Add", Primary(ExprValue(String(<<"a">>))),
                                           Primary(ExprValue(Integer(1)))),
                              Primary(ExprValue(Integer(2))))
         /\ op.value = Ok(String(<<"a", "1", "2">>))
    /\ op.written = SixMinusOneMinusTwo => op.value = Ok(Integer(3))
    /\ (Len(op.written.rules) = 2 /\ op.written.rules[1] = "sub" /\ op.written.rules[2] = "sub") =>
         op.value = resolve_expr(scopes,
                      Infix("Sub", Infix("Sub", OperandTree(op.written.operands[1]),
                                         OperandTree(op.written.operands[2])),
                            OperandTree(op.written.operands[3])))

C17_Witness ==
  /\ op.name = "parse_expr"
  /\ op.written = StringPlusOnePlusTwo
  /\ op.value = Ok(String(<<"a", "1", "2">>))

\* ------------------------------------------------------------------ C18

\* the quotient a / b of two numbers as an f64: infinite or NaN when b is 0
IsQuotient(f, a, b) ==
  IF b.num = 0 /\ b.den # 0
  THEN f.den = 0 /\ (a.den # 0 => f.num = Sign(a.num))
  ELSE (a.den # 0 /\ b.den # 0) => (f.den # 0 /\ f.num * a.den * b.num = a.num * b.den * f.den)

\* C18: div of two numbers, Integer or Float, returns Ok of a Float, never an
\* Integer and never an error: the quotient, Float 2.0 for 6 / 3, and an
\* infinity or NaN for a zero divisor.
C18_DivIsFloat ==
  (op.name = "div" /\ IsNumber(op.lhs) /\ IsNumber(op.rhs)) =>
    /\ op.result.ok
    /\ op.result.val.kind = "Float"
    /\ IsQuotient(FOf(op.result.val), NumberOf(op.lhs), NumberOf(op.rhs))
    /\ (op.lhs = Integer(6) /\ op.rhs = Integer(3)) => op.result = Ok(Float(2, 1))

C18_Witness ==
  /\ op.name = "div"
  /\ op.lhs = Integer(6)
  /\ op.rhs = Integer(3)
  /\ op.result = Ok(Float(2, 1))

\* a zero divisor
C18_ZeroDivisor ==
  /\ op.name = "div"
  /\ op.lhs = Integer(3)
  /\ op.rhs = Integer(0)
  /\ op.result = Ok(Float(1, 0))

\* ------------------------------------------------------------------ C19

\* C19: add of two numbers returns the same Value whichever is on the left,
\* an Integer when both are Integers and a Float otherwise.
C19_AddCommutes ==
  (op.name = "add" /\ IsNumber(op.lhs) /\ IsNumber(op.rhs)) =>
    /\ op.result.ok
    /\ op.result = add(op.rhs, op.lhs)
    /\ op.result.val.kind =
         (IF op.lhs.kind = "Integer" /\ op.rhs.kind = "Integer" THEN "Integer" ELSE "Float")

C19_Witness ==
  /\ op.name = "add"
  /\ op.lhs = Integer(3)
  /\ op.rhs = Float(1, 2)
  /\ op.result = Ok(Float(7, 2))

\* ------------------------------------------------------------------ C20

ConcatenationOf(r, lhs, rhs) ==
  /\ Len(r) = Len(lhs) + Len(rhs)
  /\ \A k \in 1..Len(lhs) : r[k] = lhs[k]
  /\ \A k \in 1..Len(rhs) : r[Len(lhs) + k] = rhs[k]

AddOfArrays ==
  (IsCall("add") /\ IsArray(op.args[1]) /\ IsArray(op.args[2]) /\ op'.name = "add") =>
    /\ op'.result.ok
    /\ IsArray(op'.result.val)
    /\ ConcatenationOf(op'.result.val.arr, op.args[1].arr, op.args[2].arr)
    /\ op'.lhs = op.args[1]
    /\ op'.rhs = op.args[2]

\* C20: add of two Arrays succeeds with a new Array, as long as both together,
\* of the left Array's elements in their order and then the right Array's in
\* theirs; the two operands are as they were.
C20_ArrayConcatenation == [][AddOfArrays]_vars

C20_Witness ==
  /\ op.name = "add"
  /\ op.lhs = Array(<<Integer(1), String(<<"a">>)>>)
  /\ op.rhs = Array(<<String(<<"a">>)>>)
  /\ op.result = Ok(Array(<<Integer(1), String(<<"a">>), String(<<"a">>)>>))

\* ------------------------------------------------------------------ C21

IsObject(v) == v.kind = "Object"

\* C21: add with an Object on the left or on the right returns an
\* invalid-operation error, whatever the kind of the other operand.
C21_AddObjectFails ==
  (op.name = "add" /\ (IsObject(op.lhs) \/ IsObject(op.rhs))) =>
    IsInvalidOperation(op.result)

C21_Witness ==
  /\ op.name = "add"
  /\ op.lhs = Integer(3)
  /\ IsObject(op.rhs)
  /\ op.result = InvalidOp("integer", "+", "object")

\* ------------------------------------------------------------------ C22

\* C22: neg of an Integer, anywhere in the i64 range, or of a Boolean returns
\* Ok, and neg of that value returns Ok of the original value.
C22_NegInvolution ==
  (op.name = "neg" /\ op.v.kind \in {"Integer", "Boolean"}) =>
    /\ op.first.ok
    /\ op.second = Ok(op.v)

\* short of i64::MIN, neg is the involution of C22 in every build
C22_NegInvolutionAboveMin ==
  (op.name = "neg" /\ op.v.kind \in {"Integer", "Boolean"} /\ op.v # Integer(MinI64)) =>
    /\ op.first.ok
    /\ op.second = Ok(op.v)

\* at i64::MIN the first neg panics with overflow checks and returns
\* i64::MIN without
C22_NegOfMin ==
  (op.name = "neg" /\ op.v = Integer(MinI64)) =>
    IF op.overflow_checks THEN op.first = Panic(<<"attempt to negate with overflow">>)
    ELSE op.first = Ok(Integer(MinI64)) /\ op.second = Ok(Integer(MinI64))

\* ------------------------------------------------------------------ C23

\* the text without one pair of surrounding double quotes
Unquoted(s) ==
  IF Len(s) >= 2 /\ Head(s) = "\"" /\ s[Len(s)] = "\""
  THEN [k \in 1..(Len(s) - 2) |-> s[k + 1]]
  ELSE s

\* the backslashes that end right before position k
RECURSIVE BackslashesBefore(_, _)
BackslashesBefore(u, k) ==
  IF k > 1 /\ u[k - 1] = "\\" THEN 1 + BackslashesBefore(u, k - 1) ELSE 0

\* position k follows a backslash that opens an escape
IsEscaped(u, k) == BackslashesBefore(u, k) % 2 = 1

\* what the character at position k contributes to the decoded text
Decoded(u, k) ==
  IF IsEscaped(u, k)
  THEN <<CASE u[k] = "n" -> "\n"
           [] u[k] = "r" -> "\r"
           [] u[k] = "t" -> "\t"
           [] OTHER -> u[k]>>
  ELSE IF u[k] = "\\" THEN << >>
  ELSE <<u[k]>>

RECURSIVE DecodedUpTo(_, _)
DecodedUpTo(u, k) == IF k = 0 THEN << >> ELSE DecodedUpTo(u, k - 1) \o Decoded(u, k)

\* C23: decode_string drops one pair of surrounding double quotes when there
\* is one and decodes the rest in one pass: the character after a backslash
\* stands for newline (n), carriage return (r), tab (t) or itself, the
\* backslash that opens an escape is dropped, and every other character is
\* copied; "a\nb\"c" decodes to a, newline, b, quote, c.
C23_DecodeString ==
  op.name = "decode_string" =>
    /\ op.result = DecodedUpTo(Unquoted(op.s), Len(Unquoted(op.s)))
    /\ op.s = QuotedExample => op.result = <<"a", "\n", "b", "\"", "c">>

C23_Witness ==
  /\ op.name = "decode_string"
  /\ op.s = QuotedExample
  /\ op.result = <<"a", "\n", "b", "\"", "c">>

\* ------------------------------------------------------------------ C24

\* the active calls of for_loop: the loops whose bodies are running
LoopLevels(s) == {k \in 1..Len(s) : s[k].fn = "for_loop"}

Innermost(s) == s[CHOOSE k \in LoopLevels(s) : \A j \in LoopLevels(s) : j <= k]

\* the scope an iteration leaves: `index`, then the loop variable, which
\* replaces `index` when it has that name
IterationScope(f) ==
  IF Tail(f.for_loop.variable) = S_index
  THEN <<[key |-> S_index, value |-> f.arr[f.i + 1]]>>
  ELSE <<[key |-> S_index, value |-> Integer(f.i)],
         [key |-> Tail(f.for_loop.variable), value |-> f.arr[f.i + 1]]>>

RunFails == ret = Running /\ ret'.st = "err"

FailsInBody ==
  (RunFails /\ LoopLevels(stack) # {}) =>
    /\ Len(scopes'.scopes) = Len(scopes0.scopes) + Cardinality(LoopLevels(stack))
    /\ SubSeq(scopes'.scopes, 1, Len(scopes0.scopes) + 1) = Append(scopes0.scopes, scopes0.top)
    /\ scopes'.top = IterationScope(Innermost(stack))

\* C24: when run returns an error raised inside a for-loop body, no scope
\* entered for the enclosing iterations has been exited: the stack holds one
\* more saved scope per enclosing loop, the first of them the top scope run
\* started with, and the active scope is the failing iteration's, with its
\* `index` and loop variable.
C24_NoUnwindOnError == [][FailsInBody]_vars

C24_Witness ==
  /\ ret.st = "err"
  /\ Len(scopes.scopes) = Len(scopes0.scopes) + 2
  /\ scopes0.scopes # << >>
  /\ Scope_get(scopes.top, S_index) = Some(Integer(1))
  /\ Scope_get(scopes.top, <<"x">>).some

\* ------------------------------------------------------------------ C25

\* all of a cell but its value
CellFrame(cell) ==
  [cell_type |-> cell.cell_type, format |-> cell.format, colspan |-> cell.colspan,
   rowspan |-> cell.rowspan, image_mode |-> cell.image_mode]

SameRowFrame(row, node) ==
  /\ row.kind = "Row"
  /\ Len(row.cells) = Len(node.cells)
  /\ \A k \in 1..Len(node.cells) : CellFrame(row.cells[k]) = CellFrame(node.cells[k])

SameFormatFrame(format, node) ==
  /\ format.kind = "Format"
  /\ format.identifier = node.identifier
  /\ Len(format.modifiers) = Len(node.modifiers)
  /\ \A k \in 1..Len(node.modifiers) :
       format.modifiers[k].statement = node.modifiers[k].statement

\* the element handed to the consumer in this step, against the tree node
\* run is at
DeliveredAsIs ==
  (Len(log') = Len(log) + 1) =>
    /\ InRun /\ Top.pc <= Len(Top.items)
    /\ CASE Item.kind = "Row" -> SameRowFrame(log'[Len(log')], Item)
         [] Item.kind = "Format" -> SameFormatFrame(log'[Len(log')], Item)
         [] OTHER ->
              /\ Item.kind \in {"Sheet", "Anchor", "Mover", "Cr", "Autofit", "Column", "RowSpec"}
              /\ log'[Len(log')] = Item

\* C25: resolution changes expression values only.  Sheet, Anchor, Move, Cr,
\* Autofit, Column and RowSpec reach the consumer as the tree node itself; a
\* resolved Row has the node's cells in number and order, each with its type
\* tag, format reference, colspan, rowspan and image mode; a resolved Format
\* has the node's identifier and its modifiers' statement names in order.
C25_OnlyValuesChange == [][DeliveredAsIs]_vars

C25_Witness ==
  \E k \in 1..Len(log) :
    /\ log[k].kind = "Row"
    /\ Len(log[k].cells) = 2
    /\ log[k].cells[1].colspan = 2
    /\ log[k].cells[1].format = Some(<<"h">>)
    /\ log[k].cells[2].rowspan = 3
    /\ log[k].cells[2].image_mode = Some(<<"f", "i", "t">>)
    /\ log[k].cells[2].value = Lit(String(<<"i">>))

\* ------------------------------------------------------------------ C26

\* run is at a for-loop whose source is an identifier that does not resolve
AtUnresolvedLoop ==
  /\ AtItem({"ForLoop"})
  /\ Item.expression.kind = "Identifier"
  /\ ~resolve_identifier(scopes, Item.expression.id).some

UnresolvedLoopStep ==
  AtUnresolvedLoop =>
    /\ log' = log
    /\ scopes' = scopes
    /\ stack' = << >>
    /\ ret' = [st |-> "err", err |-> <<"Unresolved identifier: ">> \o Item.expression.id]

\* C26: a for-loop over an identifier that does not resolve (unknown
\* variable or failing path) is not a loop over a non-Array: for_loop returns
\* the `Unresolved identifier` error before it enters a scope, so the body
\* never runs, nothing is handed to the consumer for the loop, the scope
\* stack is as it was and the enclosing run returns the error.
C26_UnresolvedLoopSource ==
  /\ [][UnresolvedLoopStep]_vars
  /\ []((/\ OnlyLoop(items0)
         /\ items0[1].expression.kind = "Identifier"
         /\ ~resolve_identifier(scopes0, items0[1].expression.id).some
         /\ ret # Running)
        => (Failed /\ log = << >> /\ scopes = scopes0))

\* a run of one loop over a missing key, with a body, returned
C26_Witness ==
  /\ OnlyLoop(items0)
  /\ items0[1].expression = Identifier(Id(<<"d", ".", "m", "i", "s", "s", "i", "n", "g">>))
  /\ items0[1].elements # << >>
  /\ ret = [st |-> "err",
            err |-> <<"Unresolved identifier: ", "$", "d", ".", "m", "i", "s", "s", "i", "n", "g">>]
  /\ log = << >>

\* ------------------------------------------------------------------ C27

NamedIndex(f) == Tail(f.for_loop.variable) = S_index

\* the iteration of a loop whose variable is `$index` binds the element, only
IndexIteration ==
  (InForLoop /\ Top.phase = "iter" /\ Top.i < Len(Top.arr) /\ NamedIndex(Top)) =>
    /\ scopes'.top = <<[key |-> S_index, value |-> Top.arr[Top.i + 1]]>>
    /\ resolve_identifier(scopes', Id(S_index)) = Some(Top.arr[Top.i + 1])

\* in the body of such a loop `index` is the element
IndexInBody ==
  \A k \in 1..Len(stack) :
    (InBodyOf(k) /\ NamedIndex(stack[k])) =>
      /\ Scopes_get(scopes, S_index) = Ok(stack[k].arr[stack[k].i + 1])
      /\ \A j \in 1..Len(scopes.top) : scopes.top[j].key = S_index

\* C27: in a loop whose variable is `$index` the variable is defined after
\* the position, in the same scope, and replaces it: in every iteration
\* `index` resolves to the current element, and the position is bound
\* nowhere in the iteration's scope.
C27_IndexOverwritten == []IndexInBody /\ [][IndexIteration]_vars

\* the second iteration of a loop `$index` over the Strings of `a`
C27_Witness ==
  \E k \in 1..Len(stack) :
    /\ InBodyOf(k)
    /\ NamedIndex(stack[k])
    /\ stack[k].i = 1
    /\ Scopes_get(scopes, S_index) = Ok(String(<<"s", "2">>))
    /\ log # << >>

\* ------------------------------------------------------------------ C28

\* the saved scopes under the loop at stack[k] when for_loop was called
DepthAtEntry(k) == Len(scopes0.scopes) + Cardinality({j \in 1..(k - 1) : stack[j].fn = "for_loop"})

\* VM.scopes as it was when for_loop was called for the loop at stack[k]:
\* what is above belongs to its running iteration
ScopesAtEntry(k) ==
  IF Len(scopes.scopes) = DepthAtEntry(k) THEN scopes
  ELSE [top |-> scopes.scopes[DepthAtEntry(k) + 1],
        scopes |-> SubSeq(scopes.scopes, 1, DepthAtEntry(k))]

\* the scope of the running iteration of the loop at stack[k]
ScopeOfIteration(k) ==
  IF Len(scopes.scopes) = DepthAtEntry(k) + 1 THEN scopes.top
  ELSE scopes.scopes[DepthAtEntry(k) + 2]

\* every running loop iterates the array its source had at loop entry, and
\* its running iteration binds the element at the loop's position in it
SourceFixed ==
  \A k \in LoopLevels(stack) :
    /\ resolve_expression(ScopesAtEntry(k), stack[k].for_loop.expression)
         = Ok(Array(stack[k].arr))
    /\ stack[k].phase = "body" =>
         Scope_get(ScopeOfIteration(k), Tail(stack[k].for_loop.variable))
           = Some(stack[k].arr[stack[k].i + 1])

\* for_loop returns after as many iterations as the source has elements, and
\* the source then resolves to the array again
SourceAfterLoop ==
  (InForLoop /\ Top.phase = "iter" /\ stack' = NextItem(Pop(stack))) =>
    /\ Top.i = Len(Top.arr)
    /\ resolve_expression(scopes', Top.for_loop.expression) = Ok(Array(Top.arr))

\* C28: the array a for-loop iterates is the value of its source when the
\* loop starts: the iterations, and the element each one binds, are those of
\* that array even when the loop variable or `index` shadows the source's
\* name inside the body, and after the loop the source's name resolves to
\* the array again.
C28_SourceFixedAtEntry == []SourceFixed /\ [][SourceAfterLoop]_vars

\* the source's name is bound to an element in the body
Shadowed(k) ==
  /\ InBodyOf(k)
  /\ stack[k].for_loop.expression.kind = "Identifier"
  /\ resolve_expression(scopes, stack[k].for_loop.expression) # Ok(Array(stack[k].arr))

\* the second iteration of `for $a in $a`, `a` being the first element in
\* the first
C28_Witness ==
  /\ Shadowed(2)
  /\ stack[2].for_loop.variable = Id(<<"a">>)
  /\ stack[2].i = 1
  /\ Scopes_get(scopes, <<"a">>) = Ok(String(<<"s", "2">>))

\* an inner loop over `$index`, the outer loop's element, whose own `index`
\* shadows it
C28_IndexShadowsSource ==
  /\ Len(stack) >= 3
  /\ Shadowed(Len(stack) - 1)
  /\ stack[Len(stack) - 1].for_loop.expression = Identifier(Id(S_index))
  /\ stack[Len(stack) - 1].for_loop.variable = Id(<<"x">>)

\* ------------------------------------------------------------------ C29

\* the names looked up: the loop variables of the programs, `index`, names
\* only the initial scopes bind, and one nothing binds
NamesSeen == {S_index, <<"x">>, <<"y">>, <<"a">>, <<"n">>, <<"m">>, <<"d">>, <<"z">>}

\* the frames whose scopes are active: all, but for a for_loop between two
\* iterations
ActiveLevels ==
  IF InForLoop /\ Top.phase = "iter" THEN Len(stack) - 1 ELSE Len(stack)

\* the value of `name` under the loops at stack[1..k]: the binding of the
\* innermost running iteration that binds it, or else what run started with
RECURSIVE NestLookup(_, _)
NestLookup(k, name) ==
  IF k = 0 THEN Scopes_get(scopes0, name)
  ELSE IF stack[k].fn = "for_loop" /\ Scope_get(IterationScope(stack[k]), name).some
       THEN Ok(Scope_get(IterationScope(stack[k]), name).val)
       ELSE NestLookup(k - 1, name)

\* C29: in nested for-loops every name resolves to the binding of the
\* innermost running loop that binds it, `index` and a loop variable of the
\* same name to the inner loop's while its body runs, every other name to
\* the outer loops' or the initial binding; when the inner loop has
\* returned, the rest of the outer iteration sees the outer loop's `index`
\* and loop variable of that iteration again.
C29_NestedShadowing ==
  ret = Running =>
    \A name \in NamesSeen : Scopes_get(scopes, name) = NestLookup(ActiveLevels, name)

\* the outer body, in the outer loop's second iteration, after an inner loop
\* with the same variable has run over a non-empty array
C29_Witness ==
  /\ Len(stack) = 3
  /\ InBodyOf(2)
  /\ stack[2].for_loop.variable = Id(<<"x">>)
  /\ stack[2].i = 1
  /\ stack[3].pc > 1
  /\ stack[3].items[stack[3].pc - 1].kind = "ForLoop"
  /\ stack[3].items[stack[3].pc - 1].variable = Id(<<"x">>)
  /\ stack[3].items[stack[3].pc - 1].expression = Identifier(Id(<<"a">>))
  /\ Scopes_get(scopes, S_index) = Ok(Integer(1))
  /\ Scopes_get(scopes, <<"x">>) = Ok(stack[2].arr[2])

\* the inner body, the inner loop's `index` and `x` in place of the outer's
C29_InnerBody ==
  /\ Len(stack) = 5
  /\ InBodyOf(4)
  /\ stack[2].for_loop.variable = Id(<<"x">>)
  /\ stack[4].for_loop.variable = Id(<<"x">>)
  /\ stack[2].i = 1
  /\ stack[4].i = 0
  /\ Scopes_get(scopes, S_index) = Ok(Integer(0))
  /\ Scopes_get(scopes, <<"x">>) = Ok(stack[4].arr[1])
  /\ stack[4].arr[1] # stack[2].arr[2]

\* ------------------------------------------------------------------ C30

\* the segments before the first empty one
RECURSIVE BeforeGap(_)
BeforeGap(segs) ==
  IF segs = << >> \/ Head(segs) = << >> THEN << >>
  ELSE <<Head(segs)>> \o BeforeGap(Tail(segs))

\* C30: PathSplitter ends at an empty segment: it yields the segments before
\* the first empty one, all of them in order when none is empty, and
\* resolve_identifier returns the value reached along those, so that with
\* `d` bound to an Object `$d.` and `$d..inner` are the Object itself.
C30_StopsAtEmptySegment ==
  op.name = "PathSplitter" =>
    /\ op.yielded = BeforeGap(op.segs)
    /\ (\A k \in 1..Len(op.segs) : op.segs[k] # << >>) => op.yielded = op.segs
    /\ op.result = (IF BeforeGap(op.segs) = << >> THEN None
                    ELSE Reached(scopes, BeforeGap(op.segs)))
    /\ op.segs = <<<<"d">>, << >>>> => op.result = Some(EnvDict)
    /\ op.segs = <<<<"d">>, << >>, <<"i", "n", "n", "e", "r">>>> => op.result = Some(EnvDict)

\* `$d..inner`
C30_Witness ==
  /\ op.name = "PathSplitter"
  /\ op.path = <<"d", ".", ".", "i", "n", "n", "e", "r">>
  /\ op.yielded = <<<<"d">>>>
  /\ op.result = Some(EnvDict)

\* `$d.`
C30_TrailingDot ==
  /\ op.name = "PathSplitter"
  /\ op.path = <<"d", ".">>
  /\ op.yielded = <<<<"d">>>>
  /\ op.result = Some(EnvDict)

====
